---- MODULE Spec2Model ----
(***************************************************************************)
(* Model of the bytetorrent tracker cluster (src/src/tracker/              *)
(* tracker_impl.go): the eventHandler (acceptor, learner, admission of     *)
(* client requests, catch-up) and the paxosHandler (proposer) of every     *)
(* tracker node, the RPCs in flight between them, and the reply channels   *)
(* of the clients.                                                         *)
(*                                                                         *)
(* The paxosHandler reads t.seqNum and t.highestN, which the eventHandler  *)
(* writes, without synchronisation; every such read is modelled as         *)
(* returning the value held when the handler runs.                         *)
(***************************************************************************)
EXTENDS Integers, Sequences, FiniteSets, Bags, TLC

(* ---------------------------------------------------------------- bounds *)

\* round timers that fire in one run of a scenario
MaxFires == 1

\* rounds a proposer starts beyond one for every update of the scenario
MaxSpare == 1

\* calls of WriteChunk that fail during one download
MaxWriteFails == 1

(* ------------------------------------------------------------- constants *)

\* OpType zero value (the type is declared in tracker/trackerproto)
OpTypeZero == "None"

\* the Status an AcceptReply carries when the handler never sets it
ZeroStatus == "Reject"

ZeroChunk == [ID |-> "", ChunkNum |-> 0]

ZeroTorrent ==
  [ID |-> "", TrackerNodes |-> << >>, ChunkSize |-> 0, FileSize |-> 0,
   ChunkHashes |-> << >>]

\* trackerproto.Operation{}: what a read of a missing log entry yields
ZeroOp ==
  [OpType |-> OpTypeZero, Chunk |-> ZeroChunk, ClientAddr |-> "",
   Torrent |-> ZeroTorrent]

\* trackerproto.Operation{OpType: trackerproto.None}
NoneOp ==
  [OpType |-> "None", Chunk |-> ZeroChunk, ClientAddr |-> "",
   Torrent |-> ZeroTorrent]

(* --------------------------------------------------------------- inputs *)

\* the host:port of the member with node id n
HostPort(n) == 9000 + n

\* newTorrentInfo of the tests: every chunk hashes to "banana"
NewTorrentInfo(id, trackers, numChunks) ==
  [ID |-> id, TrackerNodes |-> trackers, ChunkSize |-> 10,
   FileSize |-> 10 * numChunks,
   ChunkHashes |-> [i \in 0..(numChunks - 1) |-> "banana"]]

(* -------------------------------------------------------------- helpers *)

\* torrent.NumChunks: ceil(FileSize / ChunkSize)
NumChunks(tor) == (tor.FileSize + tor.ChunkSize - 1) \div tor.ChunkSize

Range(f) == {f[x] : x \in DOMAIN f}

\* a Go map read: the zero value when the key is missing
LogAt(l, s) == IF s \in DOMAIN l THEN l[s] ELSE ZeroOp

\* a Go map write
MapPut(m, k, v) == [x \in DOMAIN m \cup {k} |-> IF x = k THEN v ELSE m[x]]

OpCreate(tor) ==
  [OpType |-> "Create", Chunk |-> ZeroChunk, ClientAddr |-> "", Torrent |-> tor]

OpAdd(chunk, addr) ==
  [OpType |-> "Add", Chunk |-> chunk, ClientAddr |-> addr, Torrent |-> ZeroTorrent]

OpDelete(chunk, addr) ==
  [OpType |-> "Delete", Chunk |-> chunk, ClientAddr |-> addr, Torrent |-> ZeroTorrent]

(* ---------------------------------------------------------------- state *)

VARIABLES
  \* t.numNodes, the same on every node, and the clients of the cluster:
  \* each calls the trackers one request after the other
  numNodes, clients,
  \* the nodes whose process has been shut down, and the number of rounds a
  \* proposer starts at most
  closed, maxRound,
  \* eventHandler (acceptor and learner) state of every node
  seqNum, highestN, accN, accV, log, torrents, peers,
  \* the pending list, shared by the two handlers under pendingMut
  pendingOps,
  \* paxosHandler (proposer) state of every node
  myN, prepPhase, accPhase, inPaxos, pAccN, pAccV, oks, timer, comReply, round,
  \* channels: t.pending, initPaxos, t.outOfDate
  pending, initPaxos, outOfDate,
  \* RPCs: calls not yet handled, replies not yet received by the paxosHandler
  msgs, replies,
  \* position of the eventHandler: inside catchUp, or stuck on a send
  cu, ehBlocked, pxBlocked,
  \* reply channels of client requests on which an RPC worker still waits
  chanOpen, nextChan, fires,
  \* history: operations applied per node, Commit broadcasts, replies
  \* delivered to clients by the last step, OK replies delivered so far
  applied, commits, out, acked,
  \* history: for the round under way at every proposer, the OK replies to
  \* its Prepare and to its Accept that the paxosHandler has counted, and the
  \* slot and value of the Accept it has broadcast
  tally,
  \* a Client process per host:port: c.localFiles, the files on its disk,
  \* whether the process accepts connections, whether its eventHandler
  \* still runs, and the hosts whose user is going to call Close
  localFiles, files, up, handling, closing,
  \* the downloadFile goroutine, the errors sent on download.Reply, the
  \* chunks WriteChunk has written, the GetChunk call served by the last
  \* step, and the writes to the disk that still fail
  dl, results, wrote, got, writeFails,
  \* the OfferFile call a user makes: the position of the offers case of the
  \* eventHandler that serves it, and the error sent on offer.Reply
  offer,
  \* masterAwaitJoin: its two maps and t.nodes of the master, the
  \* RegisterServer calls waiting on t.registers, the slaves in
  \* slaveAwaitJoin, and the reply sent by the last step
  nodeIDs, okIDs, joined, registers, slaves, regOut

clVars == << localFiles, files, up, handling, closing, dl, results, wrote, got,
             writeFails, offer >>

joinVars == << nodeIDs, okIDs, joined, registers, slaves, regOut >>

cfgVars == << numNodes, clients, closed, maxRound, clVars, joinVars >>

evVars == << seqNum, highestN, accN, accV, log, torrents, peers >>

pxVars == << myN, prepPhase, accPhase, inPaxos, pAccN, pAccV, oks, timer,
             comReply, round, tally >>

vars == << numNodes, clients, closed, maxRound, seqNum, highestN, accN, accV, log, torrents, peers, pendingOps,
           myN, prepPhase, accPhase, inPaxos, pAccN, pAccV, oks, timer,
           comReply, round, pending, initPaxos, outOfDate, msgs, replies,
           cu, ehBlocked, pxBlocked, chanOpen, nextChan, fires,
           applied, commits, out, acked, tally, clVars, joinVars >>

Nodes == 0..(numNodes - 1)

\* t.nodes: the host:port of every cluster member
nodes == [n \in Nodes |-> HostPort(n)]

NoCatchUp == [active |-> FALSE, target |-> 0, current |-> 0]

\* nothing counted and no Accept broadcast yet
NoTally == [prep |-> {}, accept |-> {}, acc |-> {}]

\* the requests of scenario sc that are updates
Updates(sc) ==
  Cardinality(UNION {{<< c, i >> : i \in {j \in DOMAIN sc.clients[c] :
                         sc.clients[c][j].Value.OpType \notin {"Request", "Stall", "Close"}}} :
                     c \in DOMAIN sc.clients})

\* the fields NewTrackerServer sets on every node of scenario sc
InitTracker(sc) ==
  /\ numNodes = sc.numNodes
  /\ closed = sc.closed
  /\ maxRound = Updates(sc) + MaxSpare
  /\ clients = [c \in DOMAIN sc.clients |-> [script |-> sc.clients[c], chan |-> 0]]
  /\ seqNum = [n \in Nodes |-> 0]
  /\ highestN = [n \in Nodes |-> 0]
  /\ accN = [n \in Nodes |-> 0]
  /\ accV = [n \in Nodes |-> NoneOp]
  /\ log = [n \in Nodes |-> << >>]
  /\ torrents = [n \in Nodes |-> << >>]
  /\ peers = [n \in Nodes |-> << >>]
  /\ pendingOps = [n \in Nodes |-> << >>]
  /\ myN = [n \in Nodes |-> n]
  /\ prepPhase = [n \in Nodes |-> FALSE]
  /\ accPhase = [n \in Nodes |-> FALSE]
  /\ inPaxos = [n \in Nodes |-> FALSE]
  /\ pAccN = [n \in Nodes |-> 0]
  /\ pAccV = [n \in Nodes |-> NoneOp]
  /\ oks = [n \in Nodes |-> 0]
  /\ tally = [n \in Nodes |-> NoTally]
  /\ timer = [n \in Nodes |-> [T |-> FALSE, old |-> 0]]
  /\ comReply = [n \in Nodes |-> 0]
  /\ round = [n \in Nodes |-> 0]
  /\ pending = [n \in Nodes |-> {}]
  /\ initPaxos = [n \in Nodes |-> 0]
  /\ outOfDate = [n \in Nodes |-> EmptyBag]
  /\ msgs = {}
  /\ replies = {}
  /\ cu = [n \in Nodes |-> NoCatchUp]
  /\ ehBlocked = [n \in Nodes |-> ""]
  /\ pxBlocked = [n \in Nodes |-> FALSE]
  /\ chanOpen = {}
  /\ nextChan = 1
  /\ fires = sc.fires
  /\ applied = [n \in Nodes |-> << >>]
  /\ commits = {}
  /\ out = {}
  /\ acked = {}

\* the zero value of clientproto.GetReply
ZeroGetReply == [Status |-> "", Chunk |-> ""]

\* no download has been asked for
NoDownload ==
  [pc |-> "none", host |-> "", Torrent |-> ZeroTorrent, Path |-> "",
   conn |-> -1, todo |-> {}, chunkNum |-> -1, peersLeft |-> {},
   peerReply |-> ZeroGetReply]

\* no file has been offered
NoOffer ==
  [pc |-> "none", host |-> "", Torrent |-> ZeroTorrent, Path |-> "",
   conn |-> -1, chunkNum |-> 0, chan |-> 0, result |-> ""]

\* no Client process runs
NoClient ==
  /\ localFiles = << >>
  /\ files = << >>
  /\ up = {}
  /\ handling = {}
  /\ closing = {}
  /\ dl = NoDownload
  /\ results = << >>
  /\ wrote = {}
  /\ got = {}
  /\ writeFails = 0
  /\ offer = NoOffer

\* masterAwaitJoin and slaveAwaitJoin have returned on every node
RingFormed ==
  /\ nodeIDs = Nodes
  /\ okIDs = Nodes
  /\ joined = [i \in 1..numNodes |-> [HostPort |-> HostPort(i - 1), NodeID |-> i - 1]]
  /\ registers = {}
  /\ slaves = << >>
  /\ regOut = {}

\* NewTrackerServer on every node of scenario sc, after the cluster has formed
InitWith(sc) == InitTracker(sc) /\ NoClient /\ RingFormed

(* ------------------------------------------------- metadata state machine *)

\* the comparison of the pending sweep in commitOp
SweepMatch(pen, v) ==
  /\ pen.OpType = v.OpType
  /\ pen.Chunk = v.Chunk
  /\ pen.ClientAddr = v.ClientAddr

RemoveAt(q, i) == SubSeq(q, 1, i - 1) \o SubSeq(q, i + 1, Len(q))

\* The sweep loop of commitOp over pendingOps.  list.Remove clears the links
\* of the removed element, so e.Next() is nil after the first removal and the
\* loop ends there.  The send on the Reply channel completes only while the
\* RPC worker still receives on it.
Sweep(s, v) ==
  LET hits == {i \in 1..Len(s.pendingOps) : SweepMatch(s.pendingOps[i].Value, v)}
  IN  IF s.mutexHeld THEN [s EXCEPT !.blocked = "lock"]
      ELSE IF hits = {} THEN s
      ELSE LET i == CHOOSE x \in hits : \A y \in hits : x <= y
               pen == s.pendingOps[i]
               s1 == [s EXCEPT !.pendingOps = RemoveAt(@, i)]
           IN  IF pen.Reply \in s.open
               THEN [s1 EXCEPT !.open = @ \ {pen.Reply},
                               !.sent = @ \cup {[Reply |-> pen.Reply,
                                                 Value |-> pen.Value,
                                                 Status |-> "OK",
                                                 By |-> v]}]
               ELSE [s1 EXCEPT !.blocked = "sweep"]

\* commitOp with a Delete that leaves the peer in its set
ApplyKeepsPeer(s, v) ==
  LET key == v.Chunk
      m == IF key \in DOMAIN s.peers THEN s.peers[key] ELSE {}
      m2 == IF v.OpType = "Add" THEN m \cup {v.ClientAddr} ELSE m
  IN  [s EXCEPT !.peers = MapPut(@, key, m2),
                !.torrents = IF v.OpType = "Create"
                             THEN MapPut(@, v.Torrent.ID, v.Torrent)
                             ELSE @]

\* commitOp with an Add that makes its address the only peer of the chunk
ApplyAlone(s, v) ==
  LET key == v.Chunk
      m == IF key \in DOMAIN s.peers THEN s.peers[key] ELSE {}
      m2 == IF v.OpType = "Add" THEN {v.ClientAddr}
            ELSE IF v.OpType = "Delete" THEN m \ {v.ClientAddr}
            ELSE m
  IN  [s EXCEPT !.peers = MapPut(@, key, m2),
                !.torrents = IF v.OpType = "Create"
                             THEN MapPut(@, v.Torrent.ID, v.Torrent)
                             ELSE @]

\* the change commitOp makes to t.peers and t.torrents
Apply(s, v) ==
  LET key == v.Chunk
      m == IF key \in DOMAIN s.peers THEN s.peers[key] ELSE {}
      m2 == IF v.OpType = "Add" THEN m \cup {v.ClientAddr}
            ELSE IF v.OpType = "Delete" THEN m \ {v.ClientAddr}
            ELSE m
  IN  [s EXCEPT !.peers = MapPut(@, key, m2),
                !.torrents = IF v.OpType = "Create"
                             THEN MapPut(@, v.Torrent.ID, v.Torrent)
                             ELSE @]

RECURSIVE commitOp(_, _)
commitOp(s, v) ==
  LET s1 == [s EXCEPT !.seqNum = @ + 1, !.accN = 0, !.accV = NoneOp,
                      !.applied = Append(@, v)]
      s2 == Apply(s1, v)
      s3 == Sweep(s2, v)
  IN  IF s3.blocked # "" THEN s3
      ELSE IF s3.seqNum \in DOMAIN s3.log
           THEN commitOp(s3, s3.log[s3.seqNum])
           ELSE s3

logOp(s, slot, v) == [s EXCEPT !.log = MapPut(@, slot, v)]

\* the fields of node n that commitOp, logOp and catchUp work on
Ev(n) ==
  [seqNum |-> seqNum[n], accN |-> accN[n], accV |-> accV[n], log |-> log[n],
   torrents |-> torrents[n], peers |-> peers[n],
   pendingOps |-> pendingOps[n], applied |-> applied[n],
   open |-> chanOpen, sent |-> {}, blocked |-> "",
   mutexHeld |-> pxBlocked[n]]

SetEv(n, s) ==
  /\ seqNum' = [seqNum EXCEPT ![n] = s.seqNum]
  /\ accN' = [accN EXCEPT ![n] = s.accN]
  /\ accV' = [accV EXCEPT ![n] = s.accV]
  /\ log' = [log EXCEPT ![n] = s.log]
  /\ torrents' = [torrents EXCEPT ![n] = s.torrents]
  /\ peers' = [peers EXCEPT ![n] = s.peers]
  /\ pendingOps' = [pendingOps EXCEPT ![n] = s.pendingOps]
  /\ applied' = [applied EXCEPT ![n] = s.applied]
  /\ chanOpen' = s.open
  /\ out' = {[Node |-> n, Reply |-> r.Reply, Value |-> r.Value,
              Status |-> r.Status, By |-> r.By, Peers |-> {},
              ChunkHash |-> ""] : r \in s.sent}
  /\ acked' = acked \cup {[Node |-> n, Value |-> r.Value] : r \in s.sent}
  /\ ehBlocked' = [ehBlocked EXCEPT ![n] = s.blocked]

\* the process of node n has exited on a shutdown request: its handlers are
\* gone and every RPC to it fails
Down(n) == n \in closed

\* dbstallall of node n is closed: both of its handlers wait on dbcontinue
Stalled(n) == ehBlocked[n] = "stall"

\* the timer of the stall fires: dbcontinue is closed and the handlers of n
\* go back to their selects
Resume(n) ==
  /\ Stalled(n)
  /\ ehBlocked' = [ehBlocked EXCEPT ![n] = ""]
  /\ out' = {}
  /\ UNCHANGED << cfgVars, evVars, pxVars, pendingOps, pending, initPaxos,
                  outOfDate, msgs, replies, cu, pxBlocked, chanOpen, nextChan,
                  fires, applied, commits, acked >>

\* the eventHandler of n is at its select
EhFree(n) == ~Down(n) /\ ehBlocked[n] = "" /\ ~cu[n].active

(* ------------------------------------------------- eventHandler: Paxos *)

\* t.myN never decreases, so a reply to a message of a proposal number below
\* it fails the first test of its handler whenever it is received, and a
\* reply on a comReply channel that has been replaced is never received:
\* such replies are left out of the replies in flight
Heard(m) ==
  IF m.Type = "Commit" THEN m.rid = comReply[m.from]
  ELSE m.MyN >= myN[m.from]

PaxosReply(type, m, status, paxN, value, seq) ==
  [Type |-> type, to |-> m.from, from |-> m.to, Status |-> status,
   ReqPaxNum |-> m.MyN, PaxNum |-> paxN, Value |-> value, SeqNum |-> seq,
   rid |-> m.rid]

\* go func() { t.outOfDate <- seq }()
SendOutOfDate(n, seq) ==
  outOfDate' = [outOfDate EXCEPT ![n] = @ (+) SetToBag({seq})]

\* case prep := <-t.prepares, with the reply sendMess passes on
HandlePrepare(m) ==
  LET n == m.to
      status == IF m.SeqNum < seqNum[n] THEN "OutOfDate"
                ELSE IF m.SeqNum > seqNum[n] THEN "Reject"
                ELSE IF m.MyN < highestN[n] THEN "Reject"
                ELSE "OK"
      value == IF m.SeqNum < seqNum[n] THEN LogAt(log[n], m.SeqNum)
               ELSE accV[n]
  IN  /\ m \in msgs /\ m.Type = "Prepare"
      /\ EhFree(n)
      /\ msgs' = msgs \ {m}
      /\ replies' = replies \cup
           {PaxosReply("Prepare", m, status, accN[n], value, seqNum[n]) :
              x \in {y \in {m} : Heard(y)}}
      /\ highestN' = IF status = "OK" THEN [highestN EXCEPT ![n] = m.MyN]
                     ELSE highestN
      /\ IF m.SeqNum > seqNum[n] THEN SendOutOfDate(n, m.SeqNum)
         ELSE UNCHANGED outOfDate
      /\ out' = {}
      /\ UNCHANGED << cfgVars, seqNum, accN, accV, log, torrents, peers, pendingOps,
                      pxVars, pending, initPaxos, cu, ehBlocked, pxBlocked,
                      chanOpen, nextChan, fires, applied, commits, acked >>

\* an acceptor that takes an Accept for its slot whatever its number
HandleAcceptAny(m) ==
  LET n == m.to
      status == IF m.SeqNum < seqNum[n] THEN "OutOfDate"
                ELSE IF m.SeqNum > seqNum[n] THEN ZeroStatus
                ELSE "OK"
      ok == m.SeqNum = seqNum[n]
  IN  /\ m \in msgs /\ m.Type = "Accept"
      /\ EhFree(n)
      /\ msgs' = msgs \ {m}
      /\ replies' = replies \cup
           {PaxosReply("Accept", m, status, 0, ZeroOp, m.SeqNum) :
              x \in {y \in {m} : Heard(y)}}
      /\ highestN' = IF ok THEN [highestN EXCEPT ![n] = m.MyN] ELSE highestN
      /\ accN' = IF ok THEN [accN EXCEPT ![n] = m.MyN] ELSE accN
      /\ accV' = IF ok THEN [accV EXCEPT ![n] = m.Value] ELSE accV
      /\ IF m.SeqNum > seqNum[n] THEN SendOutOfDate(n, m.SeqNum)
         ELSE UNCHANGED outOfDate
      /\ out' = {}
      /\ UNCHANGED << cfgVars, seqNum, log, torrents, peers, pendingOps,
                      pxVars, pending, initPaxos, cu, ehBlocked, pxBlocked,
                      chanOpen, nextChan, fires, applied, commits, acked >>

\* case acc := <-t.accepts
HandleAccept(m) ==
  LET n == m.to
      status == IF m.SeqNum < seqNum[n] THEN "OutOfDate"
                ELSE IF m.SeqNum > seqNum[n] THEN ZeroStatus
                ELSE IF m.MyN < highestN[n] THEN "Reject"
                ELSE "OK"
      ok == m.SeqNum = seqNum[n] /\ m.MyN >= highestN[n]
  IN  /\ m \in msgs /\ m.Type = "Accept"
      /\ EhFree(n)
      /\ msgs' = msgs \ {m}
      /\ replies' = replies \cup
           {PaxosReply("Accept", m, status, 0, ZeroOp, m.SeqNum) :
              x \in {y \in {m} : Heard(y)}}
      /\ highestN' = IF ok THEN [highestN EXCEPT ![n] = m.MyN] ELSE highestN
      /\ accN' = IF ok THEN [accN EXCEPT ![n] = m.MyN] ELSE accN
      /\ accV' = IF ok THEN [accV EXCEPT ![n] = m.Value] ELSE accV
      /\ IF m.SeqNum > seqNum[n] THEN SendOutOfDate(n, m.SeqNum)
         ELSE UNCHANGED outOfDate
      /\ out' = {}
      /\ UNCHANGED << cfgVars, seqNum, log, torrents, peers, pendingOps,
                      pxVars, pending, initPaxos, cu, ehBlocked, pxBlocked,
                      chanOpen, nextChan, fires, applied, commits, acked >>

\* case com := <-t.commits; sendMess passes a reply on only for the
\* proposer's own node
HandleCommit(m) ==
  LET n == m.to
      s == IF m.SeqNum = seqNum[n]
           THEN commitOp(logOp(Ev(n), seqNum[n], m.Value), m.Value)
           ELSE logOp(Ev(n), m.SeqNum, m.Value)
  IN  /\ m \in msgs /\ m.Type = "Commit"
      /\ EhFree(n)
      /\ msgs' = msgs \ {m}
      /\ SetEv(n, s)
      /\ replies' = IF s.blocked = "" /\ m.to = m.from /\ Heard(m)
                    THEN replies \cup
                           {PaxosReply("Commit", m, "OK", 0, ZeroOp, 0)}
                    ELSE replies
      /\ UNCHANGED << cfgVars, highestN, pxVars, pending, initPaxos, outOfDate, cu,
                      pxBlocked, nextChan, fires, commits >>

(* ----------------------------------------------- eventHandler: catch-up *)

\* case seqNum := <-t.outOfDate: entry into catchUp
StartCatchUp(n) ==
  \E target \in BagToSet(outOfDate[n]) :
    /\ EhFree(n)
    /\ outOfDate' = [outOfDate EXCEPT ![n] = @ (-) SetToBag({target})]
    /\ cu' = [cu EXCEPT ![n] =
                IF seqNum[n] < target
                THEN [active |-> TRUE, target |-> target,
                      current |-> (n + 1) % numNodes]
                ELSE NoCatchUp]
    /\ out' = {}
    /\ UNCHANGED << cfgVars, evVars, pendingOps, pxVars, pending, initPaxos, msgs,
                    replies, ehBlocked, pxBlocked, chanOpen, nextChan, fires,
                    applied, commits, acked >>

\* case get := <-t.gets, as a value
GetOp(n, slot) ==
  IF slot >= seqNum[n]
  THEN [Status |-> "OutOfDate", Value |-> ZeroOp]
  ELSE [Status |-> "OK", Value |-> LogAt(log[n], slot)]

\* one iteration of the loop of catchUp: the GetOp call to the current peer,
\* answered by that peer's eventHandler, and what catchUp does with the reply
CatchUpStep(n) ==
  LET c == cu[n]
      reply == IF Down(c.current) THEN [Status |-> "error", Value |-> ZeroOp]
               ELSE GetOp(c.current, seqNum[n])
      next == (c.current + 1) % numNodes
      s == IF reply.Status = "OK" THEN commitOp(Ev(n), reply.Value) ELSE Ev(n)
      current2 == IF reply.Status = "OK" THEN c.current ELSE next
      target2 == IF reply.Status # "OK" /\ next = n THEN s.seqNum ELSE c.target
  IN  /\ c.active
      /\ ehBlocked[n] = ""
      /\ Down(c.current) \/ EhFree(c.current)
      /\ SetEv(n, s)
      /\ cu' = [cu EXCEPT ![n] =
                  IF s.seqNum < target2
                  THEN [active |-> TRUE, target |-> target2,
                        current |-> current2]
                  ELSE NoCatchUp]
      /\ UNCHANGED << cfgVars, highestN, pxVars, pending, initPaxos, outOfDate, msgs,
                      replies, pxBlocked, nextChan, fires, commits >>

(* --------------------------------------------------------- paxosHandler *)

\* a broadcast loop that leaves out the proposer's own node
BroadcastToOthers(n, type, value, rid) ==
  {[Type |-> type, from |-> n, to |-> id, MyN |-> myN'[n],
    SeqNum |-> seqNum[n], Value |-> value, rid |-> rid] :
     id \in {k \in Nodes : ~Down(k) /\ k # n}}

\* the messages one broadcast loop hands to sendMess.  The call to a node
\* that has been shut down fails: sendMess then passes on a Reject with
\* ReqPaxNum 0, which no round takes for its own, or nothing for a Commit.
Broadcast(n, type, value, rid) ==
  {[Type |-> type, from |-> n, to |-> id, MyN |-> myN'[n],
    SeqNum |-> seqNum[n], Value |-> value, rid |-> rid] :
     id \in {k \in Nodes : ~Down(k)}}

\* pendingMut is held for good by an eventHandler stuck in the sweep
MutexHeldByEh(n) == ehBlocked[n] = "sweep"

\* a proposal number that leaves the node id out
NextNoID(n) == (highestN[n] - (highestN[n] % numNodes)) + numNodes

\* the proposal number a new round takes
NextN(n) == (highestN[n] - (highestN[n] % numNodes)) + (numNodes + n)

\* time.AfterFunc fires: the callback puts a token on initPaxos
TimerFire(n) ==
  /\ ~Down(n)
  /\ fires > 0
  /\ \/ /\ timer[n].T
        /\ timer' = [timer EXCEPT ![n].T = FALSE]
     \/ /\ timer[n].old > 0
        /\ timer' = [timer EXCEPT ![n].old = @ - 1]
  /\ fires' = fires - 1
  /\ initPaxos' = [initPaxos EXCEPT ![n] = @ + 1]
  /\ out' = {}
  /\ UNCHANGED << cfgVars, evVars, pendingOps, myN, prepPhase, accPhase, inPaxos,
                  pAccN, pAccV, oks, comReply, round, pending, outOfDate,
                  msgs, replies, cu, ehBlocked, pxBlocked, chanOpen,
                  nextChan, applied, commits, acked, tally >>

\* case <-initPaxos
InitPaxos(n) ==
  /\ ~Down(n)
  /\ ~pxBlocked[n] /\ ~Stalled(n)
  /\ initPaxos[n] > 0
  /\ round[n] < maxRound
  /\ initPaxos' = [initPaxos EXCEPT ![n] = @ - 1]
  /\ inPaxos' = [inPaxos EXCEPT ![n] = TRUE]
  /\ pAccV' = [pAccV EXCEPT ![n] = NoneOp]
  /\ myN' = [myN EXCEPT ![n] = NextN(n)]
  /\ oks' = [oks EXCEPT ![n] = 0]
  /\ tally' = [tally EXCEPT ![n] = NoTally]
  /\ prepPhase' = [prepPhase EXCEPT ![n] = TRUE]
  /\ accPhase' = [accPhase EXCEPT ![n] = FALSE]
  /\ timer' = [timer EXCEPT ![n] =
                 [T |-> TRUE, old |-> @.old + (IF @.T THEN 1 ELSE 0)]]
  /\ round' = [round EXCEPT ![n] = @ + 1]
  /\ msgs' = msgs \cup Broadcast(n, "Prepare", ZeroOp, round[n] + 1)
  /\ replies' = {r \in replies :
                   r.to = n /\ r.Type # "Commit" => r.ReqPaxNum >= myN'[n]}
  /\ out' = {}
  /\ UNCHANGED << cfgVars, evVars, pendingOps, pAccN, comReply, pending, outOfDate,
                  cu, ehBlocked, pxBlocked, chanOpen, nextChan,
                  fires, applied, commits, acked >>

\* case op := <-t.pending
RecvPending(n) ==
  \E op \in pending[n] :
    /\ ~Down(n)
    /\ ~pxBlocked[n] /\ ~Stalled(n)
    /\ pending' = [pending EXCEPT ![n] = @ \ {op}]
    /\ IF MutexHeldByEh(n)
       THEN /\ pxBlocked' = [pxBlocked EXCEPT ![n] = TRUE]
            /\ UNCHANGED << pendingOps, initPaxos >>
       ELSE /\ pendingOps' = [pendingOps EXCEPT ![n] = Append(@, op)]
            /\ initPaxos' = [initPaxos EXCEPT ![n] =
                               IF inPaxos[n] THEN @ ELSE @ + 1]
            /\ UNCHANGED pxBlocked
    /\ out' = {}
    /\ UNCHANGED << cfgVars, evVars, pxVars, outOfDate, msgs, replies, cu, ehBlocked,
                    chanOpen, nextChan, fires, applied, commits, acked >>

\* a test that takes half of the nodes for a majority
MajorityOrHalf(k) == k >= (numNodes \div 2)

\* oks > (t.numNodes / 2)
Majority(k) == k > (numNodes \div 2)

\* case prep := <-prepareReply
PrepareReply(r) ==
  LET n == r.to
      current == r.ReqPaxNum = myN[n] /\ prepPhase[n]
      oks1 == IF current /\ r.Status = "OK" THEN oks[n] + 1 ELSE oks[n]
      higher == current /\ r.Status = "OK" /\ r.Value.OpType # "None"
                  /\ r.PaxNum > pAccN[n]
      accN1 == IF higher THEN r.PaxNum ELSE pAccN[n]
      accV1 == IF higher THEN r.Value ELSE pAccV[n]
      majority == current /\ Majority(oks1)
      needLock == majority /\ accV1.OpType = "None"
      stuck == needLock /\ MutexHeldByEh(n)
      accV2 == IF needLock /\ Len(pendingOps[n]) > 0
               THEN pendingOps[n][1].Value ELSE accV1
      goAccept == majority /\ ~stuck /\ accV2.OpType # "None"
  IN  /\ r \in replies /\ r.Type = "Prepare"
      /\ ~pxBlocked[n] /\ ~Stalled(n)
      /\ replies' = replies \ {r}
      /\ oks' = [oks EXCEPT ![n] = IF goAccept THEN 0 ELSE oks1]
      /\ tally' = [tally EXCEPT
                     ![n].prep = IF current /\ r.Status = "OK"
                                 THEN @ \cup {r} ELSE @,
                     ![n].accept = IF goAccept
                                   THEN {[SeqNum |-> seqNum[n], Value |-> accV2]}
                                   ELSE @]
      /\ pAccN' = [pAccN EXCEPT ![n] = accN1]
      /\ pAccV' = [pAccV EXCEPT ![n] = IF stuck THEN accV1 ELSE accV2]
      /\ IF current /\ r.Status = "OutOfDate"
         THEN SendOutOfDate(n, r.SeqNum)
         ELSE UNCHANGED outOfDate
      /\ timer' = [timer EXCEPT ![n].T =
                     IF goAccept THEN TRUE ELSE IF majority THEN FALSE ELSE @]
      /\ pxBlocked' = [pxBlocked EXCEPT ![n] = stuck]
      /\ prepPhase' = [prepPhase EXCEPT ![n] = IF goAccept THEN FALSE ELSE @]
      /\ accPhase' = [accPhase EXCEPT ![n] = IF goAccept THEN TRUE ELSE @]
      /\ inPaxos' = [inPaxos EXCEPT ![n] =
                       IF majority /\ ~stuck /\ ~goAccept THEN FALSE ELSE @]
      /\ UNCHANGED myN
      /\ msgs' = IF goAccept
                 THEN msgs \cup Broadcast(n, "Accept", accV2, round[n])
                 ELSE msgs
      /\ out' = {}
      /\ UNCHANGED << cfgVars, evVars, pendingOps, comReply, round, pending,
                      initPaxos, cu, ehBlocked, chanOpen, nextChan, fires,
                      applied, commits, acked >>

\* case acc := <-acceptReply
AcceptReply(r) ==
  LET n == r.to
      current == r.ReqPaxNum = myN[n] /\ accPhase[n]
      oks1 == IF current /\ r.Status = "OK" THEN oks[n] + 1 ELSE oks[n]
      majority == current /\ Majority(oks1)
  IN  /\ r \in replies /\ r.Type = "Accept"
      /\ ~pxBlocked[n] /\ ~Stalled(n)
      /\ replies' = {x \in replies \ {r} :
                       majority /\ x.to = n => x.Type # "Commit"}
      /\ oks' = [oks EXCEPT ![n] = oks1]
      /\ tally' = [tally EXCEPT ![n].acc = IF current /\ r.Status = "OK"
                                           THEN @ \cup {r} ELSE @]
      /\ timer' = [timer EXCEPT ![n].T = IF majority THEN FALSE ELSE @]
      /\ accPhase' = [accPhase EXCEPT ![n] = IF majority THEN FALSE ELSE @]
      /\ comReply' = [comReply EXCEPT ![n] = IF majority THEN round[n] ELSE @]
      /\ UNCHANGED myN
      /\ msgs' = IF majority
                 THEN msgs \cup Broadcast(n, "Commit", pAccV[n], round[n])
                 ELSE msgs
      /\ commits' = IF majority
                    THEN commits \cup {[SeqNum |-> seqNum[n], Value |-> pAccV[n]]}
                    ELSE commits
      /\ out' = {}
      /\ UNCHANGED << cfgVars, evVars, pendingOps, prepPhase, inPaxos, pAccN, pAccV,
                      round, pending, initPaxos, outOfDate, cu, ehBlocked,
                      pxBlocked, chanOpen, nextChan, fires, applied, acked >>

\* case com := <-comReply.  The send on initPaxos is made by the handler
\* itself: with the buffer (capacity numNodes) full it never returns, and
\* pendingMut stays locked.  Of the tokens counted in initPaxos those beyond
\* the capacity are senders still waiting, so from numNodes tokens on the
\* buffer may be full.
ComReply(r) ==
  LET n == r.to
  IN  /\ r \in replies /\ r.Type = "Commit"
      /\ r.rid = comReply[n]
      /\ ~pxBlocked[n] /\ ~Stalled(n)
      /\ replies' = replies \ {r}
      /\ IF MutexHeldByEh(n)
         THEN /\ pxBlocked' = [pxBlocked EXCEPT ![n] = TRUE]
              /\ UNCHANGED << initPaxos, pAccV, inPaxos >>
         ELSE IF Len(pendingOps[n]) > 0
         THEN \/ /\ initPaxos' = [initPaxos EXCEPT ![n] = @ + 1]
                 /\ UNCHANGED << pxBlocked, pAccV, inPaxos >>
              \/ /\ initPaxos[n] >= numNodes
                 /\ pxBlocked' = [pxBlocked EXCEPT ![n] = TRUE]
                 /\ UNCHANGED << initPaxos, pAccV, inPaxos >>
         ELSE /\ pAccV' = [pAccV EXCEPT ![n] = NoneOp]
              /\ inPaxos' = [inPaxos EXCEPT ![n] = FALSE]
              /\ UNCHANGED << initPaxos, pxBlocked >>
      /\ out' = {}
      /\ UNCHANGED << cfgVars, evVars, pendingOps, myN, prepPhase, accPhase, pAccN,
                      oks, timer, comReply, round, pending, outOfDate, msgs,
                      cu, ehBlocked, chanOpen, nextChan, fires, applied,
                      commits, acked, tally >>

(* --------------------------------------- eventHandler: client requests *)

\* the request client c makes next
Req(c) == clients[c].script[1]

\* client c calls the tracker with a request of this kind, and the
\* eventHandler of that tracker takes it from its channel
Calls(c, kind) ==
  /\ clients[c].script # << >>
  /\ clients[c].chan \notin chanOpen
  /\ Req(c).Value.OpType = kind
  /\ Req(c).Node \in Nodes
  /\ EhFree(Req(c).Node)

\* the call of client c is on its way: it returns when channel ch is served
Called(c, ch) ==
  clients' = [clients EXCEPT ![c] = [script |-> Tail(@.script), chan |-> ch]]

\* the two loops of case cre := <-t.creates over TrackerNodes and t.nodes
CorrectTrackers(tor) ==
  /\ \A i \in DOMAIN tor.TrackerNodes :
       \E k \in Nodes : nodes[k] = tor.TrackerNodes[i]
  /\ \A k \in Nodes :
       \E i \in DOMAIN tor.TrackerNodes : nodes[k] = tor.TrackerNodes[i]

\* a reply received by the RPC worker of a client request
Reply(n, ch, value, status, peerSet, hash) ==
  [Node |-> n, Reply |-> ch, Value |-> value, Status |-> status,
   By |-> NoneOp, Peers |-> peerSet, ChunkHash |-> hash]

\* go func() { t.pending <- &Pending{Value: op, Reply: reply} }()
SendPending(n, op, ch) ==
  /\ pending' = [pending EXCEPT ![n] = @ \cup {[Value |-> op, Reply |-> ch]}]
  /\ nextChan' = nextChan + 1

\* the checks with a range test that lets ChunkNum = NumChunks through
AdmissionOffByOne(n, chunk) ==
  IF chunk.ID \notin DOMAIN torrents[n] THEN "FileNotFound"
  ELSE IF chunk.ChunkNum < 0 \/ chunk.ChunkNum > NumChunks(torrents[n][chunk.ID])
  THEN "OutOfRange"
  ELSE "OK"

\* the checks shared by the reports, confirms and requests cases
Admission(n, chunk) ==
  IF chunk.ID \notin DOMAIN torrents[n] THEN "FileNotFound"
  ELSE IF chunk.ChunkNum < 0 \/ chunk.ChunkNum >= NumChunks(torrents[n][chunk.ID])
  THEN "OutOfRange"
  ELSE "OK"

\* both cases putting a Delete in the pending list
UpdateAsDelete(c) ==
  LET n == Req(c).Node
      chunk == Req(c).Value.Chunk
      status == Admission(n, chunk)
      op == [OpType |-> "Delete", Chunk |-> chunk,
             ClientAddr |-> Req(c).Value.ClientAddr, Torrent |-> ZeroTorrent]
  IN  /\ IF status # "OK"
         THEN /\ out' = {Reply(n, 0, op, status, {}, "")}
              /\ Called(c, 0)
              /\ UNCHANGED << pending, nextChan, chanOpen >>
         ELSE /\ SendPending(n, op, nextChan)
              /\ chanOpen' = chanOpen \cup {nextChan}
              /\ Called(c, nextChan)
              /\ out' = {}
      /\ UNCHANGED << clVars, joinVars, numNodes, closed, maxRound, evVars, pendingOps, pxVars, initPaxos,
                      outOfDate, msgs, replies, cu, ehBlocked, pxBlocked,
                      fires, applied, commits, acked >>

\* case rep := <-t.reports and case conf := <-t.confirms, which differ in the
\* OpType of the operation only
Update(c) ==
  LET n == Req(c).Node
      chunk == Req(c).Value.Chunk
      status == Admission(n, chunk)
      op == [OpType |-> Req(c).Value.OpType, Chunk |-> chunk,
             ClientAddr |-> Req(c).Value.ClientAddr, Torrent |-> ZeroTorrent]
  IN  /\ IF status # "OK"
         THEN /\ out' = {Reply(n, 0, op, status, {}, "")}
              /\ Called(c, 0)
              /\ UNCHANGED << pending, nextChan, chanOpen >>
         ELSE /\ SendPending(n, op, nextChan)
              /\ chanOpen' = chanOpen \cup {nextChan}
              /\ Called(c, nextChan)
              /\ out' = {}
      /\ UNCHANGED << clVars, joinVars, numNodes, closed, maxRound, evVars, pendingOps, pxVars, initPaxos,
                      outOfDate, msgs, replies, cu, ehBlocked, pxBlocked,
                      fires, applied, commits, acked >>

ReportMissing(c) == Calls(c, "Delete") /\ Update(c)

ConfirmChunk(c) == Calls(c, "Add") /\ Update(c)

\* a lookup that never finds the ID
InUseNever(n, tor) == FALSE

\* _, ok := t.torrents[cre.Args.Torrent.ID]
InUse(n, tor) == tor.ID \in DOMAIN torrents[n]

\* case cre := <-t.creates.  After the InvalidTrackers reply the handler goes
\* on: it hands the Create to t.pending with the Reply channel already used,
\* or sends InvalidID on that channel, where nobody receives any more.
CreateEntry(c) ==
  LET n == Req(c).Node
      tor == Req(c).Value.Torrent
      correct == CorrectTrackers(tor)
      exists == InUse(n, tor)
      op == OpCreate(tor)
      ch == IF exists THEN 0 ELSE nextChan
      first == IF correct THEN {}
               ELSE {Reply(n, ch, op, "InvalidTrackers", {}, "")}
  IN  /\ Calls(c, "Create")
      /\ Called(c, ch)
      /\ IF ~exists
         THEN /\ SendPending(n, op, ch)
              /\ chanOpen' = IF correct THEN chanOpen \cup {ch} ELSE chanOpen
              /\ out' = first
              /\ UNCHANGED ehBlocked
         ELSE /\ out' = IF correct
                        THEN {Reply(n, ch, op, "InvalidID", {}, "")}
                        ELSE first
              /\ ehBlocked' = [ehBlocked EXCEPT ![n] =
                                 IF correct THEN @ ELSE "creates"]
              /\ UNCHANGED << pending, nextChan, chanOpen >>
      /\ UNCHANGED << clVars, joinVars, numNodes, closed, maxRound, evVars, pendingOps, pxVars, initPaxos,
                      outOfDate, msgs, replies, cu, pxBlocked, fires, applied,
                      commits, acked >>

\* case req := <-t.requests
RequestChunk(c) ==
  LET n == Req(c).Node
      chunk == Req(c).Value.Chunk
      status == Admission(n, chunk)
      tor == torrents[n][chunk.ID]
      peerSet == IF chunk \in DOMAIN peers[n] THEN peers[n][chunk] ELSE {}
      hash == IF chunk.ChunkNum \in DOMAIN tor.ChunkHashes
              THEN tor.ChunkHashes[chunk.ChunkNum] ELSE ""
  IN  /\ Calls(c, "Request")
      /\ Called(c, 0)
      /\ out' = IF status # "OK"
                THEN {Reply(n, 0, Req(c).Value, status, {}, "")}
                ELSE {Reply(n, 0, Req(c).Value, "OK", peerSet, hash)}
      /\ UNCHANGED << clVars, joinVars, numNodes, closed, maxRound, evVars, pendingOps, pxVars, pending,
                      initPaxos, outOfDate, msgs, replies, cu, ehBlocked,
                      pxBlocked, chanOpen, nextChan, fires, applied, commits,
                      acked >>

\* the line "15" on the control input of a node: DebugStall(15), and case
\* s := <-t.dbstall of its eventHandler, which closes dbstallall
DebugStall(c) ==
  LET n == Req(c).Node
  IN  /\ Calls(c, "Stall")
      /\ Called(c, 0)
      /\ ehBlocked' = [ehBlocked EXCEPT ![n] = "stall"]
      /\ out' = {}
      /\ UNCHANGED << clVars, joinVars, numNodes, closed, maxRound, evVars, pendingOps, pxVars,
                      pending, initPaxos, outOfDate, msgs, replies, cu,
                      pxBlocked, chanOpen, nextChan, fires, applied, commits,
                      acked >>

\* the line "0" on the control input of a node: DebugStall(0) closes dbclose
\* and the node shuts down
DebugClose(c) ==
  LET n == Req(c).Node
  IN  /\ Calls(c, "Close")
      /\ Called(c, 0)
      /\ closed' = closed \cup {n}
      /\ out' = {}
      /\ UNCHANGED << clVars, joinVars, numNodes, maxRound, evVars, pendingOps, pxVars, pending,
                      initPaxos, outOfDate, msgs, replies, cu, ehBlocked,
                      pxBlocked, chanOpen, nextChan, fires, applied, commits,
                      acked >>

(* ------------------------------------------------------------ scenarios *)

CallTo(n, value) == [Node |-> n, Value |-> value]

\* the arguments of a RequestChunk call
OpRequest(chunk) ==
  [OpType |-> "Request", Chunk |-> chunk, ClientAddr |-> "",
   Torrent |-> ZeroTorrent]

\* a request on the control input to shut down
OpClose ==
  [OpType |-> "Close", Chunk |-> ZeroChunk, ClientAddr |-> "",
   Torrent |-> ZeroTorrent]

\* a request on the control input to stall for some seconds
OpStall ==
  [OpType |-> "Stall", Chunk |-> ZeroChunk, ClientAddr |-> "",
   Torrent |-> ZeroTorrent]

\* the HostPorts GetTrackers returns in a cluster of n nodes
Cluster(n) == [i \in 1..n |-> HostPort(i - 1)]

\* newTorrentInfo(t, true, 3) in a cluster of one node
TSolo == NewTorrentInfo("t1", Cluster(1), 3)

\* newTorrentInfo(t, true, 1) in a cluster of three nodes
T1 == NewTorrentInfo("t1", Cluster(3), 1)

\* the same ID with another descriptor
T1b == NewTorrentInfo("t1", Cluster(3), 2)

\* newTorrentInfo(t, false, 5): one tracker, which is no member (port 0
\* stands for "this is my port")
BadTorrent(id) == NewTorrentInfo(id, << 0 >>, 5)

Chunk(k) == [ID |-> "t1", ChunkNum |-> k]

Chunk0 == Chunk(0)

\* testCluster(1), with round timers that fire
ScTimer ==
  [numNodes |-> 1, closed |-> {}, fires |-> MaxFires,
   clients |-> << << CallTo(0, OpCreate(TSolo)),
                     CallTo(0, OpAdd(Chunk0, "banana")),
                     CallTo(0, OpAdd(Chunk0, "apple")),
                     CallTo(0, OpDelete(Chunk0, "banana")),
                     CallTo(0, OpRequest(Chunk0)) >> >>]

\* testCluster(1) with the calls of createEntryTestOneNode after it, and
\* calls the admission checks turn down in between
ScSolo ==
  [numNodes |-> 1, closed |-> {}, fires |-> 0,
   clients |-> << << CallTo(0, OpRequest(Chunk0)),
                     CallTo(0, OpAdd(Chunk0, "banana")),
                     CallTo(0, OpCreate(TSolo)),
                     CallTo(0, OpAdd(Chunk0, "banana")),
                     CallTo(0, OpAdd(Chunk0, "apple")),
                     CallTo(0, OpDelete(Chunk(3), "banana")),
                     CallTo(0, OpDelete(Chunk0, "banana")),
                     CallTo(0, OpRequest(Chunk0)),
                     CallTo(0, OpRequest(Chunk(3))),
                     CallTo(0, OpAdd(Chunk(-1), "apple")),
                     CallTo(0, OpCreate(TSolo)),
                     CallTo(0, OpCreate(BadTorrent("t1"))) >> >>]

\* two clients create the same torrent at the same tracker at once
ScRace ==
  [numNodes |-> 1, closed |-> {}, fires |-> 0,
   clients |-> << << CallTo(0, OpCreate(TSolo)) >>,
                  << CallTo(0, OpCreate(TSolo)),
                     CallTo(0, OpAdd(Chunk0, "pear")),
                     CallTo(0, OpRequest(Chunk0)) >> >>]

\* a torrent with the wrong trackers and an ID not in use
ScBadNew ==
  [numNodes |-> 1, closed |-> {}, fires |-> 0,
   clients |-> << << CallTo(0, OpCreate(BadTorrent("t2"))),
                     CallTo(0, OpCreate(TSolo)) >> >>]

\* three nodes, all up: a torrent is created and a chunk confirmed
ScTwoOps ==
  [numNodes |-> 3, closed |-> {}, fires |-> 0,
   clients |-> << << CallTo(2, OpCreate(T1)),
                     CallTo(2, OpAdd(Chunk0, "banana")) >> >>]

\* createEntryTestThreeNodes with node 2 shut down: the torrent is created
\* at node 0 and then once more at node 1
ScCross ==
  [numNodes |-> 3, closed |-> {2}, fires |-> 0,
   clients |-> << << CallTo(0, OpCreate(T1)),
                     CallTo(1, OpCreate(T1)),
                     CallTo(1, OpRequest(Chunk0)) >> >>]

\* node 2 shut down: a torrent is created at node 0, and then another
\* descriptor of the same ID at node 1
ScLagging ==
  [numNodes |-> 3, closed |-> {2}, fires |-> 0,
   clients |-> << << CallTo(0, OpCreate(T1)),
                     CallTo(1, OpCreate(T1b)),
                     CallTo(1, OpRequest(Chunk(1))) >> >>]

\* testClosedTwo as its comments have it: nodes 1 and 2 are shut down, and
\* two clients call node 0
ScClosedTwo ==
  [numNodes |-> 3, closed |-> {1, 2}, fires |-> MaxFires,
   clients |-> << << CallTo(0, OpCreate(T1)) >>,
                  << CallTo(0, OpAdd(Chunk0, "banana")) >> >>]

\* testClosedTwo with node n the only one left up
ScClosedBut(n) ==
  [numNodes |-> 3, closed |-> {0, 1, 2} \ {n}, fires |-> MaxFires,
   clients |-> << << CallTo(n, OpCreate(T1)) >> >>]

\* two clients create torrents of one ID at the same tracker at once, of
\* three chunks and of one chunk, and the first confirms its last chunk
ScShrink ==
  [numNodes |-> 1, closed |-> {}, fires |-> 0,
   clients |-> << << CallTo(0, OpCreate(TSolo)),
                     CallTo(0, OpAdd(Chunk(2), "pear")) >>,
                  << CallTo(0, OpCreate(NewTorrentInfo("t1", Cluster(1), 1))) >> >>]

Scenarios ==
  {ScTimer, ScSolo, ScRace, ScBadNew, ScTwoOps, ScCross, ScLagging,
   ScClosedTwo, ScClosedBut(1), ScClosedBut(2), ScShrink}

(* -------------------------------------------------------- specification *)

\* a step of a handler, a message or a client
Busy ==
  \/ \E m \in msgs : HandlePrepare(m)
  \/ \E m \in msgs : HandleAccept(m)
  \/ \E m \in msgs : HandleCommit(m)
  \/ \E n \in Nodes : StartCatchUp(n)
  \/ \E n \in Nodes : CatchUpStep(n)
  \/ \E n \in Nodes : InitPaxos(n)
  \/ \E n \in Nodes : RecvPending(n)
  \/ \E r \in replies : PrepareReply(r)
  \/ \E r \in replies : AcceptReply(r)
  \/ \E r \in replies : ComReply(r)
  \/ \E c \in DOMAIN clients : CreateEntry(c)
  \/ \E c \in DOMAIN clients : ConfirmChunk(c)
  \/ \E c \in DOMAIN clients : ReportMissing(c)
  \/ \E c \in DOMAIN clients : RequestChunk(c)

\* the nodes that run have nothing left to do, and the calls that can still
\* be made are to nodes that are stalled
Quiet ==
  /\ replies = {}
  /\ \A m \in msgs : Stalled(m.to) \/ Down(m.to)
  /\ \A k \in Nodes : ~Stalled(k) /\ ~Down(k) =>
        /\ pending[k] = {}
        /\ outOfDate[k] = EmptyBag
        /\ ~cu[k].active
        /\ initPaxos[k] = 0
  /\ \A c \in DOMAIN clients :
        clients[c].script # << >> /\ clients[c].chan \notin chanOpen
          => Stalled(Req(c).Node)

\* the stall of n ends, seconds after it began: the other nodes have long
\* been quiet by then
StallEnds(n) == Quiet /\ Resume(n)

Init == \E sc \in Scenarios : InitWith(sc)

Next ==
  \/ \E m \in msgs : HandlePrepare(m)
  \/ \E m \in msgs : HandleAccept(m)
  \/ \E m \in msgs : HandleCommit(m)
  \/ \E n \in Nodes : StartCatchUp(n)
  \/ \E n \in Nodes : CatchUpStep(n)
  \/ \E n \in Nodes : TimerFire(n)
  \/ \E n \in Nodes : InitPaxos(n)
  \/ \E n \in Nodes : RecvPending(n)
  \/ \E r \in replies : PrepareReply(r)
  \/ \E r \in replies : AcceptReply(r)
  \/ \E r \in replies : ComReply(r)
  \/ \E c \in DOMAIN clients : CreateEntry(c)
  \/ \E c \in DOMAIN clients : ConfirmChunk(c)
  \/ \E c \in DOMAIN clients : ReportMissing(c)
  \/ \E c \in DOMAIN clients : RequestChunk(c)

Spec == Init /\ [][Next]_vars

(* ----------------------------------------------------------- properties *)

\* the nodes that are up
Live == Nodes \ closed

\* this step serves the next call of client c, which is of one of the kinds
Served(c, kinds) ==
  /\ clients[c].script # << >>
  /\ clients'[c].script = Tail(clients[c].script)
  /\ Req(c).Value.OpType \in kinds

\* this step turns a request down at once: it delivers a reply of this
\* status and no other, enqueues nothing and leaves the replicated state alone
TurnedDown(status) ==
  /\ out' # {}
  /\ \A r \in out' : r.Status = status
  /\ UNCHANGED << pending, pendingOps, log, seqNum, torrents, peers >>

\* C1 (log agreement): for any two live replicas and every slot below both
\* of their seqNum values, the two logs hold the same operation at that slot.
C1_LogAgreement ==
  \A r1 \in Live, r2 \in Live :
    \A s \in 0..(seqNum[r1] - 1) :
      s < seqNum[r2] => LogAt(log[r1], s) = LogAt(log[r2], s)

\* C2 (per-slot Paxos safety): no two Commit broadcasts for the same slot
\* carry different operations, and no two replicas apply different
\* operations at the same slot.
C2_PaxosSafety ==
  /\ \A c1 \in commits, c2 \in commits :
       c1.SeqNum = c2.SeqNum => c1.Value = c2.Value
  /\ \A r1 \in Live, r2 \in Live :
       \A s \in 1..Len(applied[r1]) :
         s <= Len(applied[r2]) => applied[r1][s] = applied[r2][s]

\* C3 (acknowledged means applied): every update a tracker has answered OK
\* is, as the very operation the client submitted (for a Create with the
\* same descriptor), among the operations that tracker has applied.
C3_AckedIsApplied ==
  \A a \in acked :
    \E i \in 1..Len(applied[a.Node]) : applied[a.Node][i] = a.Value

\* the fold of Apply over log[0..k)
RECURSIVE Replay(_, _)
Replay(l, k) ==
  IF k = 0 THEN [peers |-> << >>, torrents |-> << >>]
  ELSE Apply(Replay(l, k - 1), LogAt(l, k - 1))

\* C4 (state determinism): on every live replica torrents and peers equal
\* the fold of Apply over log[0..seqNum), so replicas with the same log and
\* seqNum have the same maps.
C4_StateDeterminism ==
  \A n \in Live :
    /\ Replay(log[n], seqNum[n]).peers = peers[n]
    /\ Replay(log[n], seqNum[n]).torrents = torrents[n]

\* among the operations h there is an Add(chunk, addr) with no later
\* Delete(chunk, addr)
LastIsAdd(h, chunk, addr) ==
  \E i \in 1..Len(h) :
    /\ h[i].OpType = "Add" /\ h[i].Chunk = chunk /\ h[i].ClientAddr = addr
    /\ \A j \in (i + 1)..Len(h) :
         ~(h[j].OpType = "Delete" /\ h[j].Chunk = chunk
             /\ h[j].ClientAddr = addr)

\* the chunks and the addresses node n has heard of
ChunksAt(n) == DOMAIN peers[n] \cup {op.Chunk : op \in Range(applied[n])}

AddrsAt(n) ==
  UNION {peers[n][ch] : ch \in DOMAIN peers[n]}
    \cup {op.ClientAddr : op \in Range(applied[n])}

\* C5 (peer set correctness): on every live replica addr is in peers[chunk]
\* exactly when the replica has applied an Add(chunk, addr) and no
\* Delete(chunk, addr) after it, and an OK reply to RequestChunk carries
\* exactly those addresses.
C5_PeerSetCorrect ==
  /\ \A n \in Live :
       \A chunk \in ChunksAt(n) :
         \A addr \in AddrsAt(n) :
           (chunk \in DOMAIN peers[n] /\ addr \in peers[n][chunk])
             <=> LastIsAdd(applied[n], chunk, addr)
  /\ \A r \in out :
       r.Value.OpType = "Request" /\ r.Status = "OK" =>
         r.Peers = {addr \in AddrsAt(r.Node) :
                      LastIsAdd(applied[r.Node], r.Value.Chunk, addr)}

\* C5, its case: Create, Confirm(chunk 0, banana), Confirm(chunk 0, apple)
\* and Report(chunk 0, banana) are acknowledged and RequestChunk(chunk 0)
\* returns {apple}
C5_Witness ==
  \E r \in out :
    /\ r.Value.OpType = "Request" /\ r.Status = "OK"
    /\ r.Value.Chunk = Chunk0
    /\ r.Peers = {"apple"}
    /\ {OpCreate(TSolo), OpAdd(Chunk0, "banana"), OpAdd(Chunk0, "apple"),
         OpDelete(Chunk0, "banana")}
          \subseteq {a.Value : a \in {x \in acked : x.Node = r.Node}}

\* C6 (at most one Create per ID): in the log of a live replica no two
\* slots hold a Create for the same torrent ID.
C6_OneCreatePerID ==
  \A n \in Live :
    \A s1 \in DOMAIN log[n], s2 \in DOMAIN log[n] :
      /\ log[n][s1].OpType = "Create" /\ log[n][s2].OpType = "Create"
      /\ log[n][s1].Torrent.ID = log[n][s2].Torrent.ID
      => s1 = s2

\* the Create operations node n has enqueued, proposed or committed
CreatesAt(n) ==
  {op \in {p.Value : p \in pending[n]}
           \cup {p.Value : p \in Range(pendingOps[n])}
           \cup {m.Value : m \in {x \in msgs : x.from = n}}
           \cup Range(log[n]) \cup Range(applied[n]) :
     op.OpType = "Create"}

\* C7 (membership validation): a CreateEntry whose tracker nodes differ from
\* the membership is answered InvalidTrackers, and every Create a node has
\* enqueued, proposed or committed names exactly the members of the cluster.
C7_MembershipValidation ==
  /\ \A r \in out :
       r.Value.OpType = "Create" /\ ~CorrectTrackers(r.Value.Torrent)
         => r.Status = "InvalidTrackers"
  /\ \A n \in Live : \A op \in CreatesAt(n) : CorrectTrackers(op.Torrent)

\* C8 (Create idempotence at one tracker), as stated: a CreateEntry whose
\* ID is in the torrents map of the contacted tracker is answered InvalidID,
\* enqueues nothing and leaves log, seqNum, torrents and peers unchanged.
C8_AsStated ==
  [][\A c \in DOMAIN clients :
       /\ Served(c, {"Create"})
       /\ Req(c).Value.Torrent.ID \in DOMAIN torrents[Req(c).Node]
       => TurnedDown("InvalidID")]_vars

\* C8, amended: a CreateEntry whose tracker nodes are the members of the
\* cluster and whose ID is in the torrents map of the contacted tracker is
\* answered InvalidID, enqueues nothing and leaves log, seqNum, torrents and
\* peers unchanged.
C8_CreateIdempotence ==
  [][\A c \in DOMAIN clients :
       /\ Served(c, {"Create"})
       /\ CorrectTrackers(Req(c).Value.Torrent)
       /\ Req(c).Value.Torrent.ID \in DOMAIN torrents[Req(c).Node]
       => TurnedDown("InvalidID")]_vars

\* C8, its case: a tracker that holds the torrent has just answered a
\* CreateEntry of the same descriptor with InvalidID
C8_Witness ==
  \E r \in out :
    /\ r.Value.OpType = "Create" /\ r.Status = "InvalidID"
    /\ CorrectTrackers(r.Value.Torrent)
    /\ r.Value.Torrent.ID \in DOMAIN torrents[r.Node]
    /\ torrents[r.Node][r.Value.Torrent.ID] = r.Value.Torrent

\* C9 (cross-tracker Create rejection): in a cluster of three nodes, once a
\* tracker has answered CreateEntry(T) with OK, a CreateEntry(T) served by
\* another tracker is answered InvalidID.
C9_CrossTrackerRejection ==
  [][\A c \in DOMAIN clients :
       /\ numNodes = 3
       /\ Served(c, {"Create"})
       /\ \E a \in acked : a.Value = Req(c).Value /\ a.Node # Req(c).Node
       => /\ out' # {}
          /\ \A r \in out' : r.Status = "InvalidID"]_vars

\* C10 (admission errors): a ConfirmChunk, ReportMissing or RequestChunk
\* for an ID that is not in the torrents map of the contacted tracker is
\* answered FileNotFound, and one for a chunk number below 0 or not below
\* the number of chunks is answered OutOfRange; either reply is made by the
\* step that serves the call, which enqueues nothing and leaves log,
\* seqNum, torrents and peers unchanged.
C10_AdmissionErrors ==
  [][\A c \in DOMAIN clients :
       Served(c, {"Add", "Delete", "Request"}) =>
         LET n == Req(c).Node
             chunk == Req(c).Value.Chunk
         IN  IF chunk.ID \notin DOMAIN torrents[n]
             THEN TurnedDown("FileNotFound")
             ELSE chunk.ChunkNum < 0
                    \/ chunk.ChunkNum >= NumChunks(torrents[n][chunk.ID])
                  => TurnedDown("OutOfRange")]_vars

\* C10, its case: a call for a chunk number that is not below the number of
\* chunks of a torrent the tracker holds has just been answered OutOfRange
C10_Witness ==
  \E r \in out :
    /\ r.Status = "OutOfRange"
    /\ r.Value.OpType \in {"Add", "Delete", "Request"}
    /\ r.Value.Chunk.ID \in DOMAIN torrents[r.Node]
    /\ r.Value.Chunk.ChunkNum >= NumChunks(torrents[r.Node][r.Value.Chunk.ID])

(* ------------------------------------------------------------- progress *)

\* testClosed: node 2 is shut down, a torrent is created at node 0 and a
\* chunk of it confirmed there; the calls after them read the result
ScClosed ==
  [numNodes |-> 3, closed |-> {2}, fires |-> 2,
   clients |-> << << CallTo(0, OpCreate(T1)),
                     CallTo(0, OpAdd(Chunk0, "banana")),
                     CallTo(0, OpRequest(Chunk0)),
                     CallTo(0, OpDelete(Chunk0, "banana")) >> >>]

\* testClosed with node 1 shut down instead
ScClosedOne ==
  [numNodes |-> 3, closed |-> {1}, fires |-> 2,
   clients |-> << << CallTo(0, OpCreate(T1)),
                     CallTo(0, OpAdd(Chunk0, "banana")) >> >>]

\* testClosed with node 0 shut down and the calls made to node 1
ScClosedZero ==
  [numNodes |-> 3, closed |-> {0}, fires |-> 2,
   clients |-> << << CallTo(1, OpCreate(T1)),
                     CallTo(1, OpAdd(Chunk0, "banana")) >> >>]

ClosedScenarios == {ScClosed, ScClosedOne, ScClosedZero}

ClosedInit == \E sc \in ClosedScenarios : InitWith(sc)

\* the round timer of n fires, seconds after it was set: every call and
\* every handler step that could be made has been made by then
Timeout(n) == ~ENABLED Busy /\ TimerFire(n)

ClosedNext ==
  \/ Busy
  \/ \E n \in Nodes : Timeout(n)

\* the handlers of the nodes that are up keep running and a timer that is
\* set fires
ClosedSpec == ClosedInit /\ [][ClosedNext]_vars /\ WF_vars(ClosedNext)

(* ------------------------------------------------------ majority lost *)

\* C12 (no progress under majority failure): in a cluster of three nodes of
\* which two are shut down, the node that is up never commits an operation
\* (its seqNum stays 0) and never answers a client mutation OK.
C12_NoProgress ==
  numNodes = 3 /\ Cardinality(closed) = 2
    => \A n \in Live :
         /\ seqNum[n] = 0
         /\ \A a \in acked : a.Node # n

\* C12, its case: the node left up has a mutation waiting and a round of its
\* proposer has timed out and been started again
C12_Witness ==
  /\ numNodes = 3 /\ Cardinality(closed) = 2
  /\ \E n \in Live : round[n] >= 2 /\ pendingOps[n] # << >> /\ prepPhase[n]

(* ------------------------------------------------------------ catch-up *)

\* testStalled: node 2 is told to stall, a torrent is created and a chunk
\* confirmed at node 0, and then a chunk is confirmed at node 2.  Node 1 is
\* shut down before that last call, as testClosed shuts a node down.
ScStalled ==
  [numNodes |-> 3, closed |-> {}, fires |-> 0,
   clients |-> << << CallTo(2, OpStall),
                     CallTo(0, OpCreate(T1)),
                     CallTo(0, OpAdd(Chunk0, "banana")),
                     CallTo(1, OpClose),
                     CallTo(2, OpAdd(Chunk0, "apple")),
                     CallTo(2, OpRequest(Chunk0)),
                     CallTo(0, OpDelete(Chunk0, "banana")) >> >>]

StalledScenarios == {ScStalled}

StalledInit == \E sc \in StalledScenarios : InitWith(sc)

StalledNext ==
  \/ Busy
  \/ \E c \in DOMAIN clients : DebugStall(c)
  \/ \E c \in DOMAIN clients : DebugClose(c)
  \/ \E n \in Nodes : StallEnds(n)

StalledSpec == StalledInit /\ [][StalledNext]_vars

\* the ConfirmChunk that testStalled makes at the node it stalled
LaterConfirm == OpAdd(Chunk0, "apple")

\* C13 (catch-up convergence): once the ConfirmChunk made at the node that
\* was stalled has been answered OK, GetOp(s) gives the same status and
\* operation at that node and at any other node, for every slot s both have
\* committed.
C13_CatchUpConvergence ==
  \A m \in Nodes :
    [Node |-> m, Value |-> LaterConfirm] \in acked
      => \A n \in Nodes \ {m} :
           \A s \in 0..(seqNum[m] - 1) :
             s < seqNum[n] => GetOp(m, s) = GetOp(n, s)

\* C14 (log contiguity): on every replica, every slot below seqNum has a log
\* entry, and the entry is the operation the replica applied at that slot.
C14_LogContiguity ==
  \A n \in Nodes :
    \A s \in 0..(seqNum[n] - 1) :
      /\ s \in DOMAIN log[n]
      /\ s + 1 \in DOMAIN applied[n]
      /\ log[n][s] = applied[n][s + 1]

(* ------------------------------------------------------------ eviction *)

\* the operations this step applies at node n
NewlyApplied(n) ==
  {applied'[n][i] : i \in (Len(applied[n]) + 1)..Len(applied'[n])}

\* C15 (peer eviction is client-driven only): a step takes an address out of
\* peers[chunk] of a tracker only by applying Delete(chunk, addr) there, and
\* a step puts a Delete in the pending operations of a tracker only when it
\* serves a ReportMissing(chunk, addr) call made to that tracker.
C15_ClientDrivenEviction ==
  [][\A n \in Nodes :
       /\ \A chunk \in DOMAIN peers[n] :
            \A addr \in peers[n][chunk] :
              (chunk \notin DOMAIN peers'[n] \/ addr \notin peers'[n][chunk])
                => OpDelete(chunk, addr) \in NewlyApplied(n)
       /\ \A p \in pending'[n] \ pending[n] :
            p.Value.OpType = "Delete"
              => \E c \in DOMAIN clients :
                   /\ Served(c, {"Delete"})
                   /\ Req(c) = CallTo(n, p.Value)]_vars

\* C15, its case: a ReportMissing has been served and its Delete applied, and
\* the address is out of the peer set of the chunk
C15_Witness ==
  \E n \in Nodes : \E v \in Range(applied[n]) :
    /\ v.OpType = "Delete"
    /\ [Node |-> n, Value |-> v] \in acked
    /\ v.Chunk \in DOMAIN peers[n]
    /\ v.ClientAddr \notin peers[n][v.Chunk]
    /\ OpAdd(v.Chunk, v.ClientAddr) \in Range(applied[n])

\* C11, its case: one node of three is shut down and a node that is up has
\* answered both calls OK
C11_Witness ==
  /\ numNodes = 3 /\ Cardinality(closed) = 1
  /\ \E n \in Live :
       \A op \in {OpCreate(T1), OpAdd(Chunk0, "banana")} :
         [Node |-> n, Value |-> op] \in acked

\* C11 (progress under minority failure): in a cluster of three nodes of
\* which one is shut down, a CreateEntry and the ConfirmChunk after it,
\* made to a node that is up, are in the end both applied at that node and
\* answered OK.
C11_Progress ==
  <>(\E n \in Live :
       \A op \in {OpCreate(T1), OpAdd(Chunk0, "banana")} :
         /\ [Node |-> n, Value |-> op] \in acked
         /\ op \in Range(applied[n]))

(* ------------------------------------------------------ client: serving *)

\* the tracker variables a step of a Client leaves alone
trackerVars ==
  << numNodes, clients, closed, maxRound, evVars, pxVars, pendingOps, pending,
     initPaxos, outOfDate, msgs, replies, cu, ehBlocked, pxBlocked, chanOpen,
     nextChan, fires, applied, commits, acked >>

\* string(h.Sum(nil)) of a chunk: distinct chunks have distinct hashes
Hash(b) == "sha1(" \o b \o ")"

\* a read of the map Torrent.ChunkHashes
HashOf(tor, chunkNum) ==
  IF chunkNum \in DOMAIN tor.ChunkHashes THEN tor.ChunkHashes[chunkNum] ELSE ""

\* os.Open(path) on host h succeeds
CanOpen(h, path) == path \in DOMAIN files[h]

\* torrent.ReadChunk on host h reads the bytes of the chunk
CanRead(h, path, chunkNum) == chunkNum \in DOMAIN files[h][path]

ChunkNotFound == [Status |-> "ChunkNotFound", Chunk |-> ""]

\* serving without a look at the recorded chunk set
GetsAnyChunk(h, chunkID) ==
  IF chunkID.ID \notin DOMAIN localFiles[h] THEN ChunkNotFound
  ELSE LET localFile == localFiles[h][chunkID.ID]
       IN  IF ~CanOpen(h, localFile.Path) THEN ChunkNotFound
           ELSE IF ~CanRead(h, localFile.Path, chunkID.ChunkNum)
           THEN ChunkNotFound
           ELSE [Status |-> "OK",
                 Chunk |-> files[h][localFile.Path][chunkID.ChunkNum]]

\* case get := <-c.gets: the reply the eventHandler of host h sends
Gets(h, chunkID) ==
  IF chunkID.ID \notin DOMAIN localFiles[h] THEN ChunkNotFound
  ELSE LET localFile == localFiles[h][chunkID.ID]
       IN  IF chunkID.ChunkNum \notin localFile.Chunks THEN ChunkNotFound
           ELSE IF ~CanOpen(h, localFile.Path) THEN ChunkNotFound
           ELSE IF ~CanRead(h, localFile.Path, chunkID.ChunkNum)
           THEN ChunkNotFound
           ELSE [Status |-> "OK",
                 Chunk |-> files[h][localFile.Path][chunkID.ChunkNum]]

\* the eventHandler of host h runs and is at its select: it is not inside
\* the offers case, waiting for the tracker
AtSelect(h) ==
  /\ h \in handling
  /\ ~(offer.host = h /\ offer.pc \in {"confirm", "wait"})

\* the GetChunk call the last step served
Got(h, chunkID, reply) == {[Host |-> h, ChunkID |-> chunkID, Reply |-> reply]}

\* RemoteClient.GetChunk called on host h by some Client
GetChunk(h, chunkID) ==
  /\ h \in up /\ AtSelect(h)
  /\ got' = Got(h, chunkID, Gets(h, chunkID))
  /\ out' = {}
  /\ UNCHANGED << trackerVars, joinVars, offer, localFiles, files, up, handling, closing, dl,
                  results, wrote, writeFails >>

\* case cl := <-c.closes: the eventHandler of host h returns
Closes(h) ==
  /\ h \in closing
  /\ AtSelect(h)
  /\ closing' = closing \ {h}
  /\ handling' = handling \ {h}
  /\ got' = {}
  /\ out' = {}
  /\ UNCHANGED << trackerVars, joinVars, offer, localFiles, files, up, dl, results,
                  wrote, writeFails >>

(* ----------------------------------------------------- client: download *)

\* download.Reply <- err, after which downloadFile returns
Return(err) ==
  /\ results' = Append(results, err)
  /\ dl' = [dl EXCEPT !.pc = "done"]

\* a downloads case that records every chunk of the torrent at once, as the
\* offers case does
DownloadsAsOffer ==
  /\ dl.pc = "idle"
  /\ AtSelect(dl.host)
  /\ localFiles' = [localFiles EXCEPT ![dl.host] =
                      MapPut(@, dl.Torrent.ID,
                             [Torrent |-> dl.Torrent, Path |-> dl.Path,
                              Chunks |-> 0..(NumChunks(dl.Torrent) - 1)])]
  /\ dl' = [dl EXCEPT !.pc = "create"]
  /\ got' = {}
  /\ out' = {}
  /\ UNCHANGED << trackerVars, joinVars, offer, files, up, handling, closing, results, wrote,
                  writeFails >>

\* case download := <-c.downloads
Downloads ==
  /\ dl.pc = "idle"
  /\ AtSelect(dl.host)
  /\ localFiles' = [localFiles EXCEPT ![dl.host] =
                      MapPut(@, dl.Torrent.ID,
                             [Torrent |-> dl.Torrent, Path |-> dl.Path,
                              Chunks |-> {}])]
  /\ dl' = [dl EXCEPT !.pc = "create"]
  /\ got' = {}
  /\ out' = {}
  /\ UNCHANGED << trackerVars, joinVars, offer, files, up, handling, closing, results, wrote,
                  writeFails >>

\* the indices of t.TrackerNodes at which rpc.DialHTTP succeeds
Responsive(tor) ==
  {i \in DOMAIN tor.TrackerNodes :
     \E n \in Nodes : HostPort(n) = tor.TrackerNodes[i] /\ ~Down(n)}

\* getResponsiveTrackerNode: the first node of the torrent that answers
getResponsiveTrackerNode(tor) ==
  LET i == CHOOSE x \in Responsive(tor) : \A y \in Responsive(tor) : x <= y
  IN  CHOOSE n \in Nodes : HostPort(n) = tor.TrackerNodes[i]

\* the start of downloadFile: os.Create(download.Path), which fails on the
\* path "", and getResponsiveTrackerNode
OpenAndDial ==
  /\ dl.pc = "create"
  /\ IF dl.Path = ""
     THEN /\ Return("os.Create")
          /\ UNCHANGED files
     ELSE /\ files' = [files EXCEPT ![dl.host] = MapPut(@, dl.Path, << >>)]
          /\ IF Responsive(dl.Torrent) = {}
             THEN Return("Could not find a responsive Tracker")
             ELSE /\ dl' = [dl EXCEPT
                              !.pc = IF NumChunks(dl.Torrent) = 0
                                     THEN "finish" ELSE "next",
                              !.conn = getResponsiveTrackerNode(dl.Torrent),
                              !.todo = 0..(NumChunks(dl.Torrent) - 1)]
                  /\ UNCHANGED results
  /\ got' = {}
  /\ out' = {}
  /\ UNCHANGED << trackerVars, joinVars, offer, localFiles, up, handling, closing, wrote,
                  writeFails >>

\* the RequestReply case req := <-t.requests of node n sends for a chunk
RequestReply(n, chunk) ==
  IF Admission(n, chunk) # "OK"
  THEN [Status |-> Admission(n, chunk), Peers |-> {}, ChunkHash |-> ""]
  ELSE [Status |-> "OK",
        Peers |-> IF chunk \in DOMAIN peers[n] THEN peers[n][chunk] ELSE {},
        ChunkHash |-> HashOf(torrents[n][chunk.ID], chunk.ChunkNum)]

\* a downloadFile that goes on to the peers whatever hash the tracker reports
NextChunkAnyHash(k) ==
  LET chunkID == [ID |-> dl.Torrent.ID, ChunkNum |-> k]
      trackerReply == RequestReply(dl.conn, chunkID)
  IN  /\ dl.pc = "next"
      /\ k \in dl.todo
      /\ IF Down(dl.conn) THEN Return("RequestChunk failed")
         ELSE /\ EhFree(dl.conn)
              /\ dl' = [dl EXCEPT !.pc = "peers", !.chunkNum = k,
                                  !.todo = @ \ {k},
                                  !.peersLeft = trackerReply.Peers,
                                  !.peerReply = ZeroGetReply]
              /\ UNCHANGED results
      /\ got' = {}
      /\ out' = {}
      /\ UNCHANGED << trackerVars, joinVars, offer, localFiles, files, up, handling, closing,
                      wrote, writeFails >>

\* the next chunkNum of r.Perm: the RequestChunk call to the tracker and the
\* test of the hash it reports
NextChunk(k) ==
  LET chunkID == [ID |-> dl.Torrent.ID, ChunkNum |-> k]
      trackerReply == RequestReply(dl.conn, chunkID)
  IN  /\ dl.pc = "next"
      /\ k \in dl.todo
      /\ IF Down(dl.conn) THEN Return("RequestChunk failed")
         ELSE /\ EhFree(dl.conn)
              /\ IF trackerReply.ChunkHash # HashOf(dl.Torrent, k)
                 THEN Return("Bad torrent file")
                 ELSE /\ dl' = [dl EXCEPT !.pc = "peers", !.chunkNum = k,
                                          !.todo = @ \ {k},
                                          !.peersLeft = trackerReply.Peers,
                                          !.peerReply = ZeroGetReply]
                      /\ UNCHANGED results
      /\ got' = {}
      /\ out' = {}
      /\ UNCHANGED << trackerVars, joinVars, offer, localFiles, files, up, handling, closing,
                      wrote, writeFails >>

\* a test of the hash that lets every chunk through
BadHashNever(chunk, tor, chunkNum) == FALSE

\* string(h.Sum(nil)) != download.Torrent.ChunkHashes[chunkNum]
BadHash(chunk, tor, chunkNum) == Hash(chunk) # HashOf(tor, chunkNum)

\* gob leaves a field of peerReply as it was when the reply carries the zero
\* value of that field
Decode(old, reply) ==
  [Status |-> reply.Status,
   Chunk |-> IF reply.Chunk = "" THEN old.Chunk ELSE reply.Chunk]

\* torrent.WriteChunk puts the chunk at its place in the file
WriteChunk(h, path, chunkNum, chunk) ==
  files' = [files EXCEPT ![h][path] = MapPut(@, chunkNum, chunk)]

\* one round of the loop of downloadChunk, with peer p the next of r.Perm
TryPeer(p) ==
  LET chunkID == [ID |-> dl.Torrent.ID, ChunkNum |-> dl.chunkNum]
      reply == Gets(p, chunkID)
      peerReply == Decode(dl.peerReply, reply)
      chunk == peerReply.Chunk
      continue == [dl EXCEPT !.peersLeft = @ \ {p}]
  IN  /\ dl.pc = "peers"
      /\ p \in dl.peersLeft
      /\ IF p \notin up
         THEN /\ dl' = continue
              /\ got' = {}
              /\ UNCHANGED << files, wrote, writeFails >>
         ELSE IF p \notin handling
         THEN /\ dl' = [dl EXCEPT !.pc = "hung"]
              /\ got' = {}
              /\ UNCHANGED << files, wrote, writeFails >>
         ELSE /\ AtSelect(p)
              /\ got' = Got(p, chunkID, reply)
              /\ IF BadHash(chunk, dl.Torrent, dl.chunkNum)
                 THEN /\ dl' = [continue EXCEPT !.peerReply = peerReply]
                      /\ UNCHANGED << files, wrote, writeFails >>
                 ELSE \/ /\ writeFails > 0
                         /\ writeFails' = writeFails - 1
                         /\ dl' = [continue EXCEPT !.peerReply = peerReply]
                         /\ UNCHANGED << files, wrote >>
                      \/ /\ WriteChunk(dl.host, dl.Path, dl.chunkNum, chunk)
                         /\ wrote' = wrote \cup
                              {[ChunkNum |-> dl.chunkNum, Chunk |-> chunk,
                                Peer |-> p]}
                         /\ dl' = [dl EXCEPT !.pc = "notify",
                                             !.peerReply = peerReply]
                         /\ UNCHANGED writeFails
      /\ out' = {}
      /\ UNCHANGED << trackerVars, joinVars, offer, localFiles, up, handling, closing,
                      results >>

\* a downloadFile that takes a chunk no peer gave for downloaded
NoPeerLeftNil ==
  /\ dl.pc = "peers"
  /\ dl.peersLeft = {}
  /\ dl' = [dl EXCEPT !.pc = IF dl.todo = {} THEN "finish" ELSE "next"]
  /\ got' = {}
  /\ out' = {}
  /\ UNCHANGED << trackerVars, joinVars, offer, localFiles, files, up, handling, closing,
                  results, wrote, writeFails >>

\* the loop of downloadChunk has gone through all peers: downloadChunk
\* returns an error and downloadFile passes it on
NoPeerLeft ==
  /\ dl.pc = "peers"
  /\ dl.peersLeft = {}
  /\ Return("No peers responded with chunk")
  /\ got' = {}
  /\ out' = {}
  /\ UNCHANGED << trackerVars, joinVars, offer, localFiles, files, up, handling, closing,
                  wrote, writeFails >>

\* c.downloadedChunks <- chunkID and case chunkID := <-c.downloadedChunks
DownloadedChunks ==
  LET id == dl.Torrent.ID
  IN  /\ dl.pc = "notify"
      /\ AtSelect(dl.host)
      /\ localFiles' = IF id \in DOMAIN localFiles[dl.host]
                       THEN [localFiles EXCEPT ![dl.host][id].Chunks =
                               @ \cup {dl.chunkNum}]
                       ELSE localFiles
      /\ dl' = [dl EXCEPT !.pc = IF dl.todo = {} THEN "finish" ELSE "next"]
      /\ got' = {}
      /\ out' = {}
      /\ UNCHANGED << trackerVars, joinVars, offer, files, up, handling, closing, results,
                      wrote, writeFails >>

\* download.Reply <- nil
Downloaded ==
  /\ dl.pc = "finish"
  /\ Return("nil")
  /\ got' = {}
  /\ out' = {}
  /\ UNCHANGED << trackerVars, joinVars, offer, localFiles, files, up, handling, closing,
                  wrote, writeFails >>

(* ---------------------------------------------------- client: scenarios *)

\* the bytes of chunk i of the file that is shared
FileChunk(i) == IF i = 0 THEN "c0" ELSE "c1"

\* the torrent of that file, registered with a cluster of one tracker
TFile ==
  [ID |-> "f1", TrackerNodes |-> Cluster(1), ChunkSize |-> 10, FileSize |-> 20,
   ChunkHashes |-> [i \in 0..1 |-> Hash(FileChunk(i))]]

\* a torrent of the same ID with another hash for chunk 1
Forged == [TFile EXCEPT !.ChunkHashes = [i \in 0..1 |-> Hash(IF i = 0 THEN "c0" ELSE "zz")]]

\* the torrent with a tracker nobody listens at
Astray == [TFile EXCEPT !.TrackerNodes = << 0 >>]

FChunk(k) == [ID |-> "f1", ChunkNum |-> k]

\* the chunks a GetChunk call asks for
GetArgs == {FChunk(0), FChunk(1), FChunk(2), [ID |-> "f2", ChunkNum |-> 0]}

LocalFile(tor, path, chunks) ==
  [Torrent |-> tor, Path |-> path, Chunks |-> chunks]

\* One tracker, at which the torrent is created and peers confirm chunks,
\* and which is shut down in the end; alice downloads the file.  bob has the
\* whole file; the file of carol has other bytes for chunk 0 and ends before
\* chunk 1; the process of dave is gone; erin has the file and has recorded
\* chunk 0 of it only, and has lost the file of another torrent.
ScSwarm ==
  [tracker |->
     [numNodes |-> 1, closed |-> {}, fires |-> 0,
      clients |-> << << CallTo(0, OpCreate(TFile)),
                        CallTo(0, OpAdd(FChunk(0), "carol")),
                        CallTo(0, OpAdd(FChunk(0), "bob")),
                        CallTo(0, OpAdd(FChunk(1), "dave")),
                        CallTo(0, OpAdd(FChunk(1), "carol")),
                        CallTo(0, OpAdd(FChunk(1), "bob")),
                        CallTo(0, OpClose) >> >>],
   host |-> "alice", Torrent |-> TFile, Path |-> "alice/f1",
   localFiles |->
     [h \in {"alice", "bob", "carol", "dave", "erin"} |->
        IF h = "bob" THEN "f1" :> LocalFile(TFile, "bob/f1", {0, 1})
        ELSE IF h = "carol" THEN "f1" :> LocalFile(TFile, "carol/f1", {0, 1})
        ELSE IF h = "erin"
        THEN ("f1" :> LocalFile(TFile, "erin/f1", {0})) @@
             ("f2" :> LocalFile(Astray, "erin/f2", {0}))
        ELSE << >>],
   files |->
     [h \in {"alice", "bob", "carol", "dave", "erin"} |->
        IF h = "bob" THEN "bob/f1" :> [i \in 0..1 |-> FileChunk(i)]
        ELSE IF h = "carol" THEN "carol/f1" :> (0 :> "xx")
        ELSE IF h = "erin" THEN "erin/f1" :> [i \in 0..1 |-> FileChunk(i)]
        ELSE << >>],
   up |-> {"alice", "bob", "carol", "erin"},
   closing |-> {"alice", "bob"},
   writeFails |-> MaxWriteFails]

\* the torrent alice has is forged
ScForged == [ScSwarm EXCEPT !.Torrent = Forged, !.writeFails = 0]

\* the torrent alice has names a tracker that does not exist
ScAstray == [ScSwarm EXCEPT !.Torrent = Astray, !.writeFails = 0]

\* the file alice asks for cannot be created
ScNoPath == [ScSwarm EXCEPT !.Path = "", !.writeFails = 0]

ClientScenarios == {ScSwarm, ScForged, ScAstray, ScNoPath}

\* NewClient on every host of scenario sc, and a user about to call
\* DownloadFile on one of them
InitClients(sc) ==
  /\ localFiles = sc.localFiles
  /\ files = sc.files
  /\ up = sc.up
  /\ handling = sc.up
  /\ closing = sc.closing
  /\ dl = [NoDownload EXCEPT !.pc = "idle", !.host = sc.host,
                             !.Torrent = sc.Torrent, !.Path = sc.Path]
  /\ results = << >>
  /\ wrote = {}
  /\ got = {}
  /\ writeFails = sc.writeFails
  /\ offer = NoOffer

ClientInit ==
  \E sc \in ClientScenarios :
    InitTracker(sc.tracker) /\ RingFormed /\ InitClients(sc)

ClientNext ==
  \/ \E m \in msgs : HandlePrepare(m)
  \/ \E m \in msgs : HandleAccept(m)
  \/ \E m \in msgs : HandleCommit(m)
  \/ \E n \in Nodes : InitPaxos(n)
  \/ \E n \in Nodes : RecvPending(n)
  \/ \E r \in replies : PrepareReply(r)
  \/ \E r \in replies : AcceptReply(r)
  \/ \E r \in replies : ComReply(r)
  \/ \E c \in DOMAIN clients : CreateEntry(c)
  \/ \E c \in DOMAIN clients : ConfirmChunk(c)
  \/ \E c \in DOMAIN clients : DebugClose(c)
  \/ \E h \in DOMAIN localFiles : \E chunkID \in GetArgs : GetChunk(h, chunkID)
  \/ \E h \in DOMAIN localFiles : Closes(h)
  \/ Downloads
  \/ OpenAndDial
  \/ \E k \in dl.todo : NextChunk(k)
  \/ \E p \in dl.peersLeft : TryPeer(p)
  \/ NoPeerLeft
  \/ DownloadedChunks
  \/ Downloaded

ClientSpec == ClientInit /\ [][ClientNext]_vars

(* ------------------------------------------------- properties: download *)

\* the chunks the holdings map of the downloading host records for the
\* torrent of the download
Recorded ==
  IF dl.pc \in {"none", "idle"} \/ dl.Torrent.ID \notin DOMAIN localFiles[dl.host]
  THEN {}
  ELSE localFiles[dl.host][dl.Torrent.ID].Chunks

\* C16: the bytes of every chunk the download has written, and the bytes in
\* the output file of every chunk recorded as downloaded, hash to the hash
\* the torrent gives for the index of the chunk.
C16_DownloadIntegrity ==
  /\ \A w \in wrote : Hash(w.Chunk) = HashOf(dl.Torrent, w.ChunkNum)
  /\ \A i \in Recorded :
       /\ CanOpen(dl.host, dl.Path)
       /\ CanRead(dl.host, dl.Path, i)
       /\ Hash(files[dl.host][dl.Path][i]) = HashOf(dl.Torrent, i)

\* C16 witness: carol has answered with other bytes for chunk 0, and the
\* chunk has then been written from the answer of bob.
C16_Witness ==
  /\ dl.pc = "notify"
  /\ dl.chunkNum = 0
  /\ dl.peersLeft = {"bob"}
  /\ [ChunkNum |-> 0, Chunk |-> FileChunk(0), Peer |-> "bob"] \in wrote

\* every chunk of the torrent has been written, in the turn of a peer the
\* tracker lists for it, and is in the output file
AllWritten ==
  \A i \in 0..(NumChunks(dl.Torrent) - 1) :
    \E w \in wrote :
      /\ w.ChunkNum = i
      /\ Hash(w.Chunk) = HashOf(dl.Torrent, i)
      /\ w.Peer \in RequestReply(dl.conn, [ID |-> dl.Torrent.ID, ChunkNum |-> i]).Peers
      /\ CanOpen(dl.host, dl.Path)
      /\ CanRead(dl.host, dl.Path, i)
      /\ files[dl.host][dl.Path][i] = w.Chunk

C18_Serving ==
  [][\A g \in got' :
       LET h == g.Host
           id == g.ChunkID.ID
           num == g.ChunkID.ChunkNum
           held == /\ id \in DOMAIN localFiles[h]
                   /\ num \in localFiles[h][id].Chunks
           path == localFiles[h][id].Path
           readable == CanOpen(h, path) /\ CanRead(h, path, num)
       IN  /\ IF held /\ readable
              THEN g.Reply = [Status |-> "OK", Chunk |-> files[h][path][num]]
              ELSE g.Reply = ChunkNotFound
           /\ localFiles' = localFiles]_vars

\* C18 witness: erin has the bytes of chunk 1 on disk and has not recorded
\* the chunk, and has answered ChunkNotFound; bob has been asked, too.
C18_Witness ==
  /\ [Host |-> "erin", ChunkID |-> FChunk(1), Reply |-> ChunkNotFound] \in got
  /\ CanRead("erin", "erin/f1", 1)
  /\ dl.pc = "done"

(* ------------------------------------------------------------ bootstrap *)

\* the master is the node with id 0
Master == [HostPort |-> HostPort(0), NodeID |-> 0]

\* _, ok := nodeIDs[node.NodeID]; !ok
IsNew(node) == node.NodeID \notin nodeIDs

\* a test that takes the list for complete one node early
ReadyEarly(list) == Len(list) >= numNodes - 1

\* len(t.nodes) == t.numNodes
Ready(list) == Len(list) = numNodes

\* the loop of masterAwaitJoin still runs
Awaiting == Cardinality(okIDs) # numNodes

\* conn.Call("PaxosTracker.RegisterServer") of slave i: its RPC worker at the
\* master sends on t.registers
RegisterServer(i) ==
  /\ slaves[i].pc = "call"
  /\ slaves' = [slaves EXCEPT ![i].pc = "wait"]
  /\ registers' = registers \cup {i}
  /\ regOut' = {}
  /\ out' = {}
  /\ UNCHANGED << trackerVars, clVars, nodeIDs, okIDs, joined >>

\* one round of the loop of masterAwaitJoin, which takes the call of slave i
\* from t.registers, and the return of the call at the slave
masterAwaitJoin(i) ==
  LET node == slaves[i].info
      list == IF IsNew(node) THEN Append(joined, node) ELSE joined
      status == IF Ready(list) THEN "OK" ELSE "NotReady"
  IN  /\ Awaiting
      /\ i \in registers
      /\ registers' = registers \ {i}
      /\ nodeIDs' = nodeIDs \cup {node.NodeID}
      /\ joined' = list
      /\ okIDs' = IF status = "OK" THEN okIDs \cup {node.NodeID} ELSE okIDs
      /\ regOut' = {[To |-> i, Node |-> node, Status |-> status,
                     Trackers |-> list]}
      /\ slaves' = [slaves EXCEPT ![i] =
                      IF status = "OK"
                      THEN [@ EXCEPT !.pc = "joined", !.nodes = list]
                      ELSE [@ EXCEPT !.pc = "sleep"]]
      /\ out' = {}
      /\ UNCHANGED << trackerVars, clVars >>

\* a slave that does not call again after NotReady
slaveAwaitJoinOnce(i) ==
  /\ slaves[i].pc = "sleep"
  /\ slaves' = [slaves EXCEPT ![i].pc = "quit"]
  /\ regOut' = {}
  /\ out' = {}
  /\ UNCHANGED << trackerVars, clVars, nodeIDs, okIDs, joined, registers >>

\* time.Sleep(REGISTER_PERIOD) of slave i is over
slaveAwaitJoin(i) ==
  /\ slaves[i].pc = "sleep"
  /\ slaves' = [slaves EXCEPT ![i].pc = "call"]
  /\ regOut' = {}
  /\ out' = {}
  /\ UNCHANGED << trackerVars, clVars, nodeIDs, okIDs, joined, registers >>

\* a cluster of n nodes is started: the node ids the slave processes have
\* been given
Ring(n, ids) == [numNodes |-> n, ids |-> ids]

\* a cluster of three; one with a slave started twice; one with a fourth
\* process of an id of its own; a cluster of two
Rings ==
  {Ring(3, << 1, 2 >>), Ring(3, << 1, 1, 2 >>), Ring(3, << 1, 2, 5 >>),
   Ring(2, << 1 >>)}

\* NewTrackerServer of the master has reached masterAwaitJoin and that of
\* every slave slaveAwaitJoin
BootInit ==
  \E ring \in Rings :
    /\ InitTracker([numNodes |-> ring.numNodes, closed |-> {}, fires |-> 0,
                    clients |-> << >>])
    /\ NoClient
    /\ nodeIDs = {Master.NodeID}
    /\ okIDs = {Master.NodeID}
    /\ joined = << Master >>
    /\ registers = {}
    /\ slaves = [i \in DOMAIN ring.ids |->
                   [info |-> [HostPort |-> HostPort(i), NodeID |-> ring.ids[i]],
                    pc |-> "call", nodes |-> << >>]]
    /\ regOut = {}

BootNext ==
  \/ \E i \in DOMAIN slaves : RegisterServer(i)
  \/ \E i \in DOMAIN slaves : masterAwaitJoin(i)
  \/ \E i \in DOMAIN slaves : slaveAwaitJoin(i)

BootSpec == BootInit /\ [][BootNext]_vars

\* the master and every slave are processes of their own and each of them
\* goes on running: a call that can be made is made, a call waiting on
\* t.registers is taken, and a sleep ends
FairBootSpec ==
  /\ BootInit /\ [][BootNext]_vars
  /\ \A i \in 1..3 :
       /\ WF_vars(i \in DOMAIN slaves /\ RegisterServer(i))
       /\ WF_vars(i \in DOMAIN slaves /\ masterAwaitJoin(i))
       /\ WF_vars(i \in DOMAIN slaves /\ slaveAwaitJoin(i))

\* the node ids of a list of nodes
IDs(list) == {list[i].NodeID : i \in DOMAIN list}

\* C19: a reply of the master to RegisterServer is OK exactly when its node
\* list has N nodes, which are then of N distinct ids and are the list the
\* reply carries; it is NotReady otherwise; in both cases the id of the caller
\* is in the list, and no id is in the list twice.
C19_MasterRule ==
  /\ \A r \in regOut :
       /\ r.Status = "OK" =>
            /\ Len(joined) = numNodes
            /\ Cardinality(IDs(joined)) = numNodes
            /\ r.Trackers = joined
       /\ r.Status # "OK" => r.Status = "NotReady" /\ Len(joined) # numNodes
       /\ r.Node.NodeID \in IDs(joined)
  /\ \A i, j \in DOMAIN joined : joined[i].NodeID = joined[j].NodeID => i = j

\* C19 witness: a slave whose id another process had registered before is
\* answered OK with the list of three nodes.
C19_Witness ==
  \E r \in regOut :
    /\ r.Status = "OK"
    /\ Len(r.Trackers) = 3
    /\ \E i \in DOMAIN joined : /\ joined[i].NodeID = r.Node.NodeID
                                /\ joined[i] # r.Node

(* ------------------------------------------ properties: proposal numbers *)

\* C20: the proposal number of a node that has started a round is its node
\* id modulo N, as is the number in each of its Prepare and Accept calls; two
\* nodes that have started rounds have different numbers; and the number a
\* round starts with is above the highestN of the node.
C20_ProposalNumbers ==
  [][\A n \in Nodes :
       /\ round'[n] > 0 =>
            /\ myN'[n] % numNodes = n
            /\ \A k \in Nodes \ {n} : round'[k] > 0 => myN'[k] # myN'[n]
       /\ round'[n] # round[n] => myN'[n] > highestN[n]
       /\ \A m \in msgs' :
            m.from = n /\ m.Type \in {"Prepare", "Accept"}
              => m.MyN % numNodes = n]_vars

\* C20 witness: two nodes have started rounds, and one of them has gone past
\* a whole block of N numbers because of what its acceptor had seen.
C20_Witness ==
  \E n, k \in Nodes :
    /\ n # k
    /\ round[n] = 1 /\ round[k] >= 1
    /\ myN[n] >= 2 * numNodes
    /\ highestN[n] >= myN[k]

(* --------------------------------------------- properties: round restart *)

\* the round of n that is under way is given up for a new one by this step
Restarts(n) ==
  /\ round'[n] # round[n]
  /\ prepPhase[n] \/ accPhase[n]

\* C23: a round that takes the place of one still under way has a proposal
\* number above the number of that round, and so, as myN never goes down,
\* above the number of every earlier round of the node.
C23_RestartHigher ==
  [][\A n \in Nodes : Restarts(n) => myN'[n] > myN[n]]_vars

(* ------------------------------------------------------ two proposers *)

\* newTorrentInfo for a second file in a cluster of three nodes
T2 == NewTorrentInfo("t2", Cluster(3), 1)

\* node 2 shut down, and two clients that create a torrent each, one at
\* node 0 and one at node 1, at the same time: both nodes propose for slot 0
ScDuel ==
  [numNodes |-> 3, closed |-> {2}, fires |-> 0,
   clients |-> << << CallTo(0, OpCreate(T1)) >>,
                  << CallTo(1, OpCreate(T2)) >> >>]

\* the same, with the trackers of the torrent created at node 1 not those of
\* the cluster, as those of badtorrent in createEntryTestThreeNodes
ScDuelBad ==
  [ScDuel EXCEPT !.clients[2] = << CallTo(1, OpCreate(BadTorrent("t2"))) >>]

DuelScenarios == {ScDuel, ScDuelBad}

DuelInit == \E sc \in DuelScenarios : InitWith(sc)

DuelNext ==
  \/ \E m \in msgs : HandlePrepare(m)
  \/ \E m \in msgs : HandleAccept(m)
  \/ \E m \in msgs : HandleCommit(m)
  \/ \E n \in Nodes : StartCatchUp(n)
  \/ \E n \in Nodes : CatchUpStep(n)
  \/ \E n \in Nodes : InitPaxos(n)
  \/ \E n \in Nodes : RecvPending(n)
  \/ \E r \in replies : PrepareReply(r)
  \/ \E r \in replies : AcceptReply(r)
  \/ \E r \in replies : ComReply(r)
  \/ \E c \in DOMAIN clients : CreateEntry(c)

DuelSpec == DuelInit /\ [][DuelNext]_vars

(* -------------------------------------------------- properties: acceptor *)

\* the Prepare and Accept calls this step takes from the channels of the
\* eventHandlers
Handled == {m \in msgs \ msgs' : m.Type \in {"Prepare", "Accept"}}

\* the replies to them that this step hands to the paxosHandlers
Answers == replies' \ replies

\* the acceptor of n keeps its three fields
AcceptorKept(n) ==
  /\ highestN'[n] = highestN[n]
  /\ accN'[n] = accN[n]
  /\ accV'[n] = accV[n]

\* C25: a Prepare or Accept for the slot seqNum of the acceptor with a number
\* below highestN is answered Reject and changes nothing; any other Prepare
\* sets highestN to its number and is answered OK with accN, accV and seqNum;
\* any other Accept sets highestN and accN to its number and accV to its
\* value and is answered OK.
C25_AcceptorCurrentSlot ==
  [][\A m \in Handled :
       LET n == m.to
       IN  m.SeqNum = seqNum[n] =>
             IF m.MyN < highestN[n]
             THEN /\ AcceptorKept(n)
                  /\ \A r \in Answers : r.Status = "Reject"
             ELSE IF m.Type = "Prepare"
             THEN /\ highestN'[n] = m.MyN
                  /\ accN'[n] = accN[n]
                  /\ accV'[n] = accV[n]
                  /\ \A r \in Answers :
                       /\ r.Status = "OK"
                       /\ r.PaxNum = accN[n]
                       /\ r.Value = accV[n]
                       /\ r.SeqNum = seqNum[n]
             ELSE /\ highestN'[n] = m.MyN
                  /\ accN'[n] = m.MyN
                  /\ accV'[n] = m.Value
                  /\ \A r \in Answers : r.Status = "OK"]_vars

\* C25 witness: a Prepare has been answered OK with a value the acceptor had
\* accepted, and an Accept of a number below highestN has been answered
\* Reject.
C25_Witness ==
  /\ \E r \in replies :
       /\ r.Type = "Prepare"
       /\ r.Status = "OK"
       /\ r.Value.OpType # "None"
       /\ r.PaxNum > 0
       /\ highestN[r.from] = r.ReqPaxNum
  /\ \E r \in replies :
       /\ r.Type = "Accept"
       /\ r.Status = "Reject"
       /\ r.SeqNum = seqNum[r.from]
       /\ r.ReqPaxNum < highestN[r.from]

\* C26: a Prepare or Accept for a slot above seqNum of the acceptor is
\* answered Reject and puts the slot on the outOfDate channel of the node;
\* one for a slot below seqNum is answered OutOfDate, a Prepare with the
\* operation the node applied at that slot; neither changes highestN, accN
\* or accV.
C26_AcceptorOtherSlots ==
  [][\A m \in Handled :
       LET n == m.to
       IN  m.SeqNum # seqNum[n] =>
             /\ AcceptorKept(n)
             /\ m.SeqNum > seqNum[n] =>
                  /\ \A r \in Answers : r.Status = "Reject"
                  /\ outOfDate'[n] = outOfDate[n] (+) SetToBag({m.SeqNum})
             /\ m.SeqNum < seqNum[n] =>
                  /\ outOfDate'[n] = outOfDate[n]
                  /\ \A r \in Answers :
                       /\ r.Status = "OutOfDate"
                       /\ r.Type = "Prepare"
                            => r.Value = applied[n][m.SeqNum + 1]]_vars

(* ----------------------------------------------- properties: pending sweep *)

\* pending entry e stands for the same request as one of the operations ops
Swept(e, ops) == \E v \in ops : SweepMatch(e.Value, v)

\* C28: when a node applies operations, the entries of its pending queue
\* whose OpType, Chunk and ClientAddr equal those of an applied operation
\* are all answered OK and removed, and no other entry is answered or
\* removed.
C28_PendingSweep ==
  [][\A n \in Nodes :
       Len(applied'[n]) > Len(applied[n]) =>
         LET ops == NewlyApplied(n)
             q == pendingOps[n]
             hit == {i \in 1..Len(q) : Swept(q[i], ops)}
         IN  /\ pendingOps'[n] = SelectSeq(q, LAMBDA e : ~Swept(e, ops))
             /\ {o.Reply : o \in {x \in out' : x.Node = n}}
                  = {q[i].Reply : i \in hit}
             /\ \A o \in out' : o.Node = n => o.Status = "OK"]_vars

(* ------------------------------------------- properties: proposer replies *)

\* the replies to a Prepare or an Accept of the round under way at their
\* proposer that a paxosHandler receives in this step
Received ==
  {r \in replies \ replies' :
     /\ r.Type \in {"Prepare", "Accept"}
     /\ round'[r.to] = round[r.to]
     /\ r.rid = round[r.to]
     /\ r.ReqPaxNum = myN[r.to]
     /\ IF r.Type = "Prepare" THEN prepPhase[r.to] ELSE accPhase[r.to]}

\* C30: a proposer that receives an OutOfDate reply to a Prepare or an Accept
\* of its round puts a catch-up on its outOfDate channel; one that receives
\* a Reject puts none there and stays in its round, the round timer running.
C30_OutOfDateCatchUp ==
  [][\A r \in Received :
       LET n == r.to
       IN  /\ r.Status = "OutOfDate" =>
                BagCardinality(outOfDate'[n]) = BagCardinality(outOfDate[n]) + 1
           /\ r.Status = "Reject" =>
                /\ outOfDate'[n] = outOfDate[n]
                /\ prepPhase'[n] = prepPhase[n]
                /\ accPhase'[n] = accPhase[n]
                /\ timer'[n].T]_vars

(* --------------------------------------------- properties: application *)

\* the operations logged for the slots that follow slot s without a gap
RECURSIVE Logged(_, _)
Logged(lg, s) ==
  IF s \in DOMAIN lg THEN << lg[s] >> \o Logged(lg, s + 1) ELSE << >>

\* C27: a node applies its slots in index order, each once, so that the
\* operations it has applied are those of slots 0..seqNum-1; a Commit for
\* a slot other than seqNum applies nothing, and a Commit for slot seqNum
\* applies, within its handling, its operation and after it the operations
\* logged for seqNum+1, seqNum+2, ... up to the first slot not logged.
C27_OrderedApplication ==
  [][/\ \A n \in Nodes :
          /\ Len(applied'[n]) = seqNum'[n]
          /\ Len(applied'[n]) >= Len(applied[n])
          /\ SubSeq(applied'[n], 1, Len(applied[n])) = applied[n]
     /\ \A m \in msgs \ msgs' :
          m.Type = "Commit" =>
            LET n == m.to
            IN  applied'[n] =
                  IF m.SeqNum = seqNum[n]
                  THEN applied[n] \o << m.Value >>
                         \o Logged(log[n], seqNum[n] + 1)
                  ELSE applied[n]]_vars

(* ------------------------------------------------ properties: one slot *)

\* C24: the Accept and the Commit a proposer broadcasts name the slot of the
\* Prepare of the same round.  The broadcast is made on receiving an OK reply
\* of the round, and that reply carries the slot: an acceptor answers a
\* Prepare OK only for its own seqNum, which it puts in the reply, and the
\* reply to an Accept carries the slot of the Accept.
C24_OneSlotPerRound ==
  [][\A r \in Received :
       \A m \in msgs' \ msgs :
         m.from = r.to /\ m.Type \in {"Accept", "Commit"}
           => m.SeqNum = r.SeqNum]_vars

(* ------------------------------------------- two proposers and a timer *)

\* ScDuelBad with a round timer that fires
ScRestart == [ScDuelBad EXCEPT !.fires = MaxFires]

RestartScenarios == {ScRestart}

RestartInit == \E sc \in RestartScenarios : InitWith(sc)

\* the round timer of node 0 fires while its paxosHandler has counted an OK
\* reply to its Prepare and waits for the others
RoundTimeout == prepPhase[0] /\ oks[0] > 0 /\ TimerFire(0)

RestartNext ==
  \/ DuelNext
  \/ RoundTimeout

RestartSpec == RestartInit /\ [][RestartNext]_vars

(* ------------------------------------------ properties: proposer quorums *)

\* the replicas whose OK reply to the Accept for slot s and value v of the
\* round under way at n has been counted once this step is done
AcceptQuorum(n, s, v) ==
  IF [SeqNum |-> s, Value |-> v] \in tally'[n].accept
  THEN {r.from : r \in {x \in tally'[n].acc :
                          /\ x.rid = round[n]
                          /\ x.ReqPaxNum = myN[n]
                          /\ x.SeqNum = s}}
  ELSE {}

\* C22: a proposer broadcasts Commit(s, v) only when more than half of the
\* replicas have each answered OK to the Accept for slot s and value v of
\* its round under way; replies to messages of a round given up are not
\* among them, and a replica counts once.
C22_AcceptQuorum ==
  [][\A m \in msgs' \ msgs :
       m.Type = "Commit" =>
         Majority(Cardinality(AcceptQuorum(m.from, m.SeqNum, m.Value)))]_vars

\* the OK replies to the Prepare of the round under way at n that have been
\* counted once this step is done
PrepareOKs(n) == {r \in tally'[n].prep : r.rid = round[n]}

\* C21: when the OK replies to the Prepare of its round come from more than
\* half of the replicas, the value a proposer sends in Accept is the value
\* of such a reply that carries one with the highest accepted number, and
\* the head of its pending queue if none of these replies carries a value.
C21_ValueSelection ==
  [][\A m \in msgs' \ msgs :
       m.Type = "Accept" =>
         LET n == m.from
             withV == {r \in PrepareOKs(n) : r.Value.OpType # "None"}
         IN  Majority(Cardinality({r.from : r \in PrepareOKs(n)})) =>
               IF withV = {}
               THEN /\ Len(pendingOps[n]) > 0
                    /\ m.Value = pendingOps[n][1].Value
               ELSE \E r \in withV :
                      /\ \A x \in withV : x.PaxNum <= r.PaxNum
                      /\ m.Value = r.Value]_vars

(* ------------------------------------------------ properties: catch-up *)

\* C29: every catch-up ends and hands the eventHandler back to its select:
\* once no handler, call or reply of the cluster has a step left, no node is
\* still inside catchUp.
C29_CatchUpTerminates ==
  (~ENABLED DuelNext) => \A n \in Nodes : ~cu[n].active

(* --------------------------------------- properties: admission errors *)

\* C31: admission errors are not fatal to the tracker: the eventHandler of
\* a node is never left waiting in a send on the Reply channel of a client
\* request, neither in its creates case nor in the sweep of commitOp, so it
\* goes on to serve every later request.
C31_AdmissionNotFatal ==
  \A n \in Nodes : ehBlocked[n] \notin {"creates", "sweep"}

(* ------------------------------------------- properties: chunk numbers *)

\* C32: every Add and Delete a replica has applied names a chunk of a
\* torrent that a Create applied before it has made, and a chunk number
\* that is at least 0 and below the number of chunks of the descriptor the
\* replica holds for the ID.
C32_ChunkInRange ==
  \A n \in Nodes :
    \A i \in DOMAIN applied[n] :
      LET op == applied[n][i]
      IN  op.OpType \in {"Add", "Delete"} =>
            /\ \E j \in 1..(i - 1) :
                 /\ applied[n][j].OpType = "Create"
                 /\ applied[n][j].Torrent.ID = op.Chunk.ID
            /\ op.Chunk.ID \in DOMAIN torrents[n]
            /\ op.Chunk.ChunkNum >= 0
            /\ op.Chunk.ChunkNum < NumChunks(torrents[n][op.Chunk.ID])

(* ------------------------------------- properties: descriptor permanence *)

\* C33: once an ID is in the torrents map of a replica, no step removes
\* it and no step changes the descriptor stored for it.
C33_DescriptorPermanence ==
  [][\A n \in Nodes :
       \A id \in DOMAIN torrents[n] :
         /\ id \in DOMAIN torrents'[n]
         /\ torrents'[n][id] = torrents[n][id]]_vars

(* -------------------------------------------- properties: Add and Delete *)

\* C34: a step in which a replica applies Adds and Deletes only leaves its
\* torrents map alone and moves seqNum by the number of operations applied;
\* an address is in the peer set of a chunk after the step exactly when it
\* was before, unless the step applies an Add or Delete of that address for
\* that chunk.  A single Add leaves its address in the set of its chunk, a
\* single Delete leaves it out, and the Delete of an address that is not in
\* the set changes no peer set.
C34_AddDeleteFrame ==
  [][\A n \in Nodes :
       LET new == NewlyApplied(n)
           count == Len(applied'[n]) - Len(applied[n])
           before(chunk) ==
             IF chunk \in DOMAIN peers[n] THEN peers[n][chunk] ELSE {}
           after(chunk) ==
             IF chunk \in DOMAIN peers'[n] THEN peers'[n][chunk] ELSE {}
           chunks == DOMAIN peers[n] \cup DOMAIN peers'[n]
       IN  (new # {} /\ \A op \in new : op.OpType \in {"Add", "Delete"}) =>
             /\ torrents'[n] = torrents[n]
             /\ seqNum'[n] = seqNum[n] + count
             /\ \A chunk \in chunks :
                  \A addr \in before(chunk) \cup after(chunk) :
                    \/ addr \in before(chunk) <=> addr \in after(chunk)
                    \/ \E op \in new : op.Chunk = chunk /\ op.ClientAddr = addr
             /\ count = 1 =>
                  \A op \in new :
                    /\ op.OpType = "Add" => op.ClientAddr \in after(op.Chunk)
                    /\ op.OpType = "Delete" =>
                         /\ op.ClientAddr \notin after(op.Chunk)
                         /\ op.ClientAddr \notin before(op.Chunk) =>
                              \A chunk \in chunks : after(chunk) = before(chunk)]_vars

\* C34, its case: a replica has applied Add(chunk, a) and Add(chunk, b) and
\* then Delete(chunk, a) twice, the second time with a out of the set
\* already, and b alone is in the peer set of the chunk
C34_Witness ==
  \E n \in Nodes :
    LET h == applied[n]
        k == Len(h)
    IN  /\ k >= 4
        /\ h[k].OpType = "Delete"
        /\ h[k - 1] = h[k]
        /\ OpAdd(h[k].Chunk, h[k].ClientAddr) \in Range(h)
        /\ h[k].Chunk \in DOMAIN peers[n]
        /\ peers[n][h[k].Chunk] # {}
        /\ \A addr \in peers[n][h[k].Chunk] :
             addr # h[k].ClientAddr /\ OpAdd(h[k].Chunk, addr) \in Range(h)
        /\ seqNum[n] = k

(* --------------------------------------- properties: tracker hash check *)

\* C35: when downloadFile leaves the RequestChunk call for a chunk, it goes
\* on to the peers of the chunk only if the hash the tracker reports for it
\* is the hash the torrent has for its index; it reports "Bad torrent file"
\* only if the two differ for the chunk asked about, and that step asks no
\* peer and writes nothing; a download that has reported its result never
\* moves, writes or records again.
C35_TrackerHashCheck ==
  [][LET differs(k) ==
           RequestReply(dl.conn, [ID |-> dl.Torrent.ID, ChunkNum |-> k]).ChunkHash
             # HashOf(dl.Torrent, k)
     IN  /\ dl.pc = "next" /\ dl'.pc = "peers" => ~differs(dl'.chunkNum)
         /\ dl.pc = "next" /\ dl'.pc = "done" =>
              /\ ~Down(dl.conn) =>
                   /\ results' = Append(results, "Bad torrent file")
                   /\ \E k \in dl.todo : differs(k)
              /\ got' = {} /\ wrote' = wrote /\ files' = files
              /\ localFiles' = localFiles
         /\ dl.pc = "next" /\ ~Down(dl.conn) /\ dl' # dl
              /\ (\A k \in dl.todo : differs(k))
              => dl'.pc = "done"
         /\ dl.pc = "done" =>
              /\ dl' = dl /\ wrote' = wrote /\ results' = results
              /\ files'[dl.host] = files[dl.host]
              /\ localFiles'[dl.host] = localFiles[dl.host]]_vars

\* C35, its case: the tracker holds the torrent and reports for chunk 1
\* another hash than the torrent of the download has; chunk 0 has been
\* written, the download has failed with "Bad torrent file" and nothing has
\* been written for chunk 1
C35_Witness ==
  /\ results = << "Bad torrent file" >>
  /\ dl.conn \in Nodes
  /\ dl.Torrent.ID \in DOMAIN torrents[dl.conn]
  /\ HashOf(torrents[dl.conn][dl.Torrent.ID], 1) # HashOf(dl.Torrent, 1)
  /\ \E w \in wrote : w.ChunkNum = 0
  /\ \A w \in wrote : w.ChunkNum # 1
  /\ ~CanRead(dl.host, dl.Path, 1)

(* --------------------------------------- properties: confirm after download *)

\* C36: the chunks a download has recorded are confirmed to the tracker:
\* once downloadFile has returned and the tracker it called is up with no
\* request, pending operation or Paxos message left to handle, the host of
\* the download is in the peer set the tracker holds for every chunk the
\* host has recorded.
C36_ConfirmAfterDownload ==
  /\ dl.pc = "done"
  /\ dl.conn \in Nodes
  /\ ~Down(dl.conn)
  /\ msgs = {} /\ replies = {}
  /\ \A n \in Nodes : pending[n] = {} /\ pendingOps[n] = << >>
  /\ \A c \in DOMAIN clients : clients[c].chan \notin chanOpen
  => \A i \in Recorded :
       LET chunk == [ID |-> dl.Torrent.ID, ChunkNum |-> i]
       IN  /\ chunk \in DOMAIN peers[dl.conn]
           /\ dl.host \in peers[dl.conn][chunk]

(* ------------------------------------------- properties: bootstrap ends *)

\* C37: when the N - 1 slaves have the node ids 1 .. N - 1, one each, then
\* from some time on the loop of masterAwaitJoin has ended, every slave has
\* been answered OK and holds the node list of the master, and that list
\* has N nodes of the ids 0 .. N - 1; and whenever the loop of the master
\* has ended every slave has been answered OK.
C37_BootstrapConverges ==
  LET distinct ==
        /\ Len(slaves) = numNodes - 1
        /\ {slaves[i].info.NodeID : i \in DOMAIN slaves} = 1..(numNodes - 1)
      joinedAll ==
        /\ ~Awaiting
        /\ Len(joined) = numNodes
        /\ IDs(joined) = 0..(numNodes - 1)
        /\ \A i \in DOMAIN slaves :
             slaves[i].pc = "joined" /\ slaves[i].nodes = joined
  IN  /\ distinct => <>[]joinedAll
      /\ [](distinct /\ ~Awaiting =>
              \A i \in DOMAIN slaves : slaves[i].pc = "joined")

\* C37, its case: a cluster of three has formed: the slave of id 2 has
\* registered before the slave of id 1, so it was answered NotReady first,
\* and both slaves have been answered OK and hold the list of three nodes
\* of the master
C37_Witness ==
  /\ numNodes = 3 /\ Len(slaves) = 2
  /\ ~Awaiting
  /\ Len(joined) = 3
  /\ \A i \in DOMAIN slaves :
       slaves[i].pc = "joined" /\ slaves[i].nodes = joined
  /\ joined[2].NodeID = 2

(* ------------------------------------ properties: acceptor monotonicity *)

\* C38: on every replica no step lowers highestN or seqNum, and in every
\* state accN is at most highestN and accV is the None operation exactly
\* when accN is 0.
C38_AcceptorMonotonic ==
  [][\A n \in Nodes :
       /\ highestN'[n] >= highestN[n]
       /\ seqNum'[n] >= seqNum[n]
       /\ accN[n] <= highestN[n] /\ accN'[n] <= highestN'[n]
       /\ accV[n].OpType = "None" <=> accN[n] = 0
       /\ accV'[n].OpType = "None" <=> accN'[n] = 0]_vars

\* C38, its case: a replica that has applied a slot has accepted a value
\* for the next one and has since promised a higher number to another
\* proposer
C38_Witness ==
  \E n \in Nodes :
    /\ seqNum[n] > 0
    /\ accN[n] > 0
    /\ accV[n].OpType # "None"
    /\ highestN[n] > accN[n]

(* -------------------------------------------------------- client: offer *)

\* the offers case is over and the eventHandler is back at its select:
\* offer.Reply <- err
OfferReplied(err) == [offer EXCEPT !.pc = "done", !.result = err]

\* the loop over the chunks goes on with the next chunk, or the offers case
\* ends with offer.Reply <- nil
OfferNextChunk ==
  IF offer.chunkNum + 1 < NumChunks(offer.Torrent)
  THEN [offer EXCEPT !.pc = "confirm", !.chunkNum = @ + 1]
  ELSE OfferReplied("nil")

\* case offer := <-c.offers, up to the first call to the tracker: the host
\* records all chunks of the file; when no tracker answers, the handler
\* sends nil on offer.Reply and returns
Offers ==
  LET h == offer.host
      tor == offer.Torrent
  IN  /\ offer.pc = "idle"
      /\ AtSelect(h)
      /\ localFiles' = [localFiles EXCEPT ![h] =
                          MapPut(@, tor.ID,
                                 [Torrent |-> tor, Path |-> offer.Path,
                                  Chunks |-> 0..(NumChunks(tor) - 1)])]
      /\ IF Responsive(tor) = {}
         THEN /\ offer' = OfferReplied("nil")
              /\ handling' = handling \ {h}
         ELSE /\ offer' = IF NumChunks(tor) = 0 THEN OfferReplied("nil")
                          ELSE [offer EXCEPT
                                  !.pc = "confirm",
                                  !.conn = getResponsiveTrackerNode(tor),
                                  !.chunkNum = 0]
              /\ UNCHANGED handling
      /\ got' = {}
      /\ out' = {}
      /\ UNCHANGED << trackerVars, joinVars, files, up, closing, dl, results,
                      wrote, writeFails >>

\* trackerConn.Call("RemoteTracker.ConfirmChunk") for the next chunk, and
\* case conf := <-t.confirms of the tracker: a call that fails and a reply of
\* FileNotFound make the handler send an error and return
OfferConfirm ==
  LET h == offer.host
      n == offer.conn
      chunk == [ID |-> offer.Torrent.ID, ChunkNum |-> offer.chunkNum]
      status == Admission(n, chunk)
  IN  /\ offer.pc = "confirm"
      /\ IF Down(n)
         THEN /\ offer' = OfferReplied("ConfirmChunk failed")
              /\ handling' = handling \ {h}
              /\ UNCHANGED << pending, nextChan, chanOpen >>
         ELSE /\ EhFree(n)
              /\ IF status = "FileNotFound"
                 THEN /\ offer' = OfferReplied("Tried to offer file which does not exist on Tracker")
                      /\ handling' = handling \ {h}
                      /\ UNCHANGED << pending, nextChan, chanOpen >>
                 ELSE IF status = "OutOfRange"
                 THEN /\ offer' = OfferNextChunk
                      /\ UNCHANGED << handling, pending, nextChan, chanOpen >>
                 ELSE /\ SendPending(n, OpAdd(chunk, h), nextChan)
                      /\ chanOpen' = chanOpen \cup {nextChan}
                      /\ offer' = [offer EXCEPT !.pc = "wait", !.chan = nextChan]
                      /\ UNCHANGED handling
      /\ got' = {}
      /\ out' = {}
      /\ UNCHANGED << joinVars, numNodes, clients, closed, maxRound, evVars,
                      pendingOps, pxVars, initPaxos, outOfDate, msgs, replies,
                      cu, ehBlocked, pxBlocked, fires, applied, commits, acked,
                      localFiles, files, up, closing, dl, results, wrote,
                      writeFails >>

\* the ConfirmChunk call returns: with the reply of the tracker, or with an
\* error because the tracker has shut down
OfferConfirmed ==
  /\ offer.pc = "wait"
  /\ IF offer.chan \notin chanOpen
     THEN /\ offer' = OfferNextChunk
          /\ UNCHANGED handling
     ELSE /\ Down(offer.conn)
          /\ offer' = OfferReplied("ConfirmChunk failed")
          /\ handling' = handling \ {offer.host}
  /\ got' = {}
  /\ out' = {}
  /\ UNCHANGED << trackerVars, joinVars, localFiles, files, up, closing, dl,
                  results, wrote, writeFails >>

\* One tracker, at which the torrent is created, a chunk past its end is
\* confirmed by carol and which is shut down in the end, or no tracker at the
\* address the torrent names; bob has the file and a user calls OfferFile on
\* bob.
OfferInit ==
  \E tor \in {TFile, Astray} :
    /\ InitTracker([numNodes |-> 1, closed |-> {}, fires |-> 0,
                    clients |-> << << CallTo(0, OpCreate(TFile)),
                                      CallTo(0, OpAdd(FChunk(2), "carol")),
                                      CallTo(0, OpClose) >> >>])
    /\ RingFormed
    /\ localFiles = [h \in {"bob"} |-> << >>]
    /\ files = [h \in {"bob"} |-> "bob/f1" :> [i \in 0..1 |-> FileChunk(i)]]
    /\ up = {"bob"}
    /\ handling = {"bob"}
    /\ closing = {}
    /\ dl = NoDownload
    /\ results = << >>
    /\ wrote = {}
    /\ got = {}
    /\ writeFails = 0
    /\ offer = [NoOffer EXCEPT !.pc = "idle", !.host = "bob", !.Torrent = tor,
                               !.Path = "bob/f1"]

OfferNext ==
  \/ \E m \in msgs : HandlePrepare(m)
  \/ \E m \in msgs : HandleAccept(m)
  \/ \E m \in msgs : HandleCommit(m)
  \/ \E n \in Nodes : InitPaxos(n)
  \/ \E n \in Nodes : RecvPending(n)
  \/ \E r \in replies : PrepareReply(r)
  \/ \E r \in replies : AcceptReply(r)
  \/ \E r \in replies : ComReply(r)
  \/ \E c \in DOMAIN clients : CreateEntry(c)
  \/ \E c \in DOMAIN clients : ConfirmChunk(c)
  \/ \E c \in DOMAIN clients : DebugClose(c)
  \/ \E h \in DOMAIN localFiles : \E chunkID \in GetArgs : GetChunk(h, chunkID)
  \/ Offers
  \/ OfferConfirm
  \/ OfferConfirmed

OfferSpec == OfferInit /\ [][OfferNext]_vars

(* ------------------------------------------------- properties: offer *)

\* C39: the eventHandler of a client outlives the OfferFile calls it
\* serves: once the offers case has sent its result on offer.Reply, whatever
\* the result, the eventHandler of the host still runs.
C39_OfferSurvives ==
  offer.pc = "done" => offer.host \in handling

(* ------------------------------------------- properties: verified chunks *)

\* C40: on the host that downloads, an index enters the chunk set of the
\* entry the download created only in a step before which the chunk has been
\* written to the output file with bytes of the hash the torrent gives for
\* the index, and a GetChunk call to that host for the torrent is answered
\* OK only for an index that is recorded and so written, with those bytes.
C40_VerifiedBeforeServed ==
  [][LET h == dl.host
         verified(i) ==
           /\ CanOpen(h, dl.Path)
           /\ CanRead(h, dl.Path, i)
           /\ Hash(files[h][dl.Path][i]) = HashOf(dl.Torrent, i)
           /\ \E w \in wrote :
                w.ChunkNum = i /\ w.Chunk = files[h][dl.Path][i]
     IN  /\ \A i \in Recorded' \ Recorded : verified(i)
         /\ \A g \in got' :
              (/\ g.Host = h
               /\ g.ChunkID.ID = dl.Torrent.ID
               /\ g.Reply.Status = "OK")
                => /\ g.ChunkID.ChunkNum \in Recorded
                   /\ verified(g.ChunkID.ChunkNum)
                   /\ g.Reply.Chunk = files[h][dl.Path][g.ChunkID.ChunkNum]]_vars

\* C40, its case: alice has written and recorded chunk 0 of the download and
\* not yet chunk 1, and has answered a GetChunk call for chunk 0 with OK and
\* the bytes.
C40_Witness ==
  /\ dl.host = "alice"
  /\ Recorded = {0}
  /\ \E w \in wrote : w.ChunkNum = 0
  /\ ~CanRead("alice", dl.Path, 1)
  /\ [Host |-> "alice", ChunkID |-> FChunk(0),
      Reply |-> [Status |-> "OK", Chunk |-> FileChunk(0)]] \in got

====
